---- MODULE Spec2Model ----
(***************************************************************************)
(* The input-dispatch engine of the budgeting application: the event loop  *)
(* of main.rs, Controller::handle_events with its two accumulators and the *)
(* command trie, the popups that capture the keyboard, and the cursor      *)
(* state the View keeps per sheet.                                         *)
(*                                                                         *)
(* Strings are sequences of one-character strings.  Option<T> is a record  *)
(* with a "some" field.  Indices are 0-based as in the source; Seq values  *)
(* are 1-based, so At(s, i) reads s[i + 1].                                *)
(***************************************************************************)
EXTENDS Integers, Sequences, FiniteSets, TLC

VARIABLES
    model,        \* Model: main_sheet and the secondary sheets
    view,         \* View: selected_sheet and sheet_states (keyed by sheet name)
    last_nums,    \* ControllerState.last_nums (pending digits)
    last_chars,   \* ControllerState.last_chars (pending characters)
    popup,        \* ControllerState.popup
    exit,         \* ControllerState.exit
    register,     \* ControllerState.register
    pc,           \* position of run_program's loop: "draw", "poll", "done", "aborted"
    trace         \* history: what the last handled key event was and did

vars == <<model, view, last_nums, last_chars, popup, exit, register, pc, trace>>

-----------------------------------------------------------------------------
(* Bounds of the model *)

\* rows of each sheet of a loaded document
MaxRows == 3
\* most digits typed in a row in the navigation machine
MaxNums == 2
\* a character key is accepted while last_chars holds at most this many characters
MaxPending == 1
\* the same for the token machine, where the characters of a token are typed
MaxToken == 4
\* most digits typed in a row in the count machine (u32 saturates at ten digits)
MaxCountDigits == 10
\* most characters a popup's text area may hold
MaxText == 3
\* most entries View.sheet_states may hold (a rename is disabled at the bound)
MaxStates == 2
\* most sheets the document may hold (a sheet is created below the bound)
MaxSheets == 3
\* rows of the terminal left for the table (SheetState.visible_row_num after a draw)
VisibleRows == 4

-----------------------------------------------------------------------------
(* Option, strings, saturating arithmetic *)

None == [some |-> FALSE]
Some(x) == [some |-> TRUE, v |-> x]

At(s, i) == s[i + 1]

IsPrefix(p, s) == Len(p) <= Len(s) /\ SubSeq(s, 1, Len(p)) = p

Min(a, b) == IF a < b THEN a ELSE b
Max(a, b) == IF a > b THEN a ELSE b

\* usize::MAX, held as the largest integer the checker has
USIZE_MAX == 2147483647

\* usize::saturating_add
SatAdd(a, b) == IF a >= USIZE_MAX - b THEN USIZE_MAX ELSE a + b
\* usize::saturating_sub
SatSub(a, b) == IF b >= a THEN 0 ELSE a - b

-----------------------------------------------------------------------------
(* ControllerState::get_count_amount.  A u32 is held as two limbs,          *)
(* value = hi * Limb + lo, because 2^32 - 1 exceeds the checker's integers. *)

Limb == 100000
\* u32::MAX = 4294967295 = 42949 * 100000 + 67295
U32MaxHi == 42949
U32MaxLo == 67295
U32Max == [hi |-> U32MaxHi, lo |-> U32MaxLo]
U32(n) == [hi |-> n \div Limb, lo |-> n % Limb]

LimbLeq(a, b) == a.hi < b.hi \/ (a.hi = b.hi /\ a.lo <= b.lo)

\* 2^32 = 42949 * 100000 + 67296
RECURSIVE WrapU32(_)
WrapU32(r) ==
    IF LimbLeq(r, U32Max) THEN r
    ELSE WrapU32(IF r.lo >= U32MaxLo + 1
                 THEN [hi |-> r.hi - U32MaxHi, lo |-> r.lo - (U32MaxLo + 1)]
                 ELSE [hi |-> r.hi - U32MaxHi - 1, lo |-> r.lo + Limb - (U32MaxLo + 1)])

\* u32::wrapping_mul(10) in the place of saturating_mul(10)
WrappingMul10(a) ==
    LET lo10 == a.lo * 10
    IN WrapU32([hi |-> a.hi * 10 + lo10 \div Limb, lo |-> lo10 % Limb])

\* u32::saturating_mul(10)
SatMul10(a) ==
    LET lo10 == a.lo * 10
        r == [hi |-> a.hi * 10 + lo10 \div Limb, lo |-> lo10 % Limb]
    IN IF LimbLeq(r, U32Max) THEN r ELSE U32Max

\* u32::saturating_add(d), d a decimal digit
SatAddDigit(a, d) ==
    LET s == a.lo + d
        r == [hi |-> a.hi + s \div Limb, lo |-> s % Limb]
    IN IF LimbLeq(r, U32Max) THEN r ELSE U32Max

RECURSIVE FoldCount(_, _)
FoldCount(acc, ds) ==
    IF ds = <<>> THEN acc
    ELSE FoldCount(SatAddDigit(SatMul10(acc), Head(ds)), Tail(ds))

get_count_amount(nums) == FoldCount(U32(0), nums)

\* `as usize`; a count beyond the checker's integers is held as USIZE_MAX
AsUsize(c) == IF c.hi >= 21474 THEN USIZE_MAX ELSE c.hi * Limb + c.lo

-----------------------------------------------------------------------------
(* Model (model/mod.rs, model/sheets.rs) *)

\* NaiveDate::from(Local::now().naive_local()), as <<year, month, day>>
Today == <<2026, 11, 5>>

\* Transaction::default(): empty label, today's date, amount 0.0.
\* Amounts are held in ten-thousandths.
DefaultTransaction == [label |-> <<>>, date |-> Today, amount |-> 0]

NewSheet(name, transactions) == [name |-> name, transactions |-> transactions]

DigitChar(n) == At(<<"0", "1", "2", "3", "4", "5", "6", "7", "8", "9">>, n)

\* format!("Sheet{}", n) for the sheet numbers the model reaches
SheetName(n) == <<"S", "h", "e", "e", "t", DigitChar(n)>>

\* Model::new(None): the scratch session
ScratchModel ==
    [main_sheet |-> NewSheet(SheetName(0), <<DefaultTransaction>>), sheets |-> <<>>]

\* the rows load_sheets pushes to the secondary sheet, in order
LoadedRow(i) ==
    CASE i % 5 = 0 -> [label |-> <<"f", "o", "o">>, date |-> Today, amount |-> 150000]
      [] i % 5 = 1 -> [label |-> <<"b", "a", "r">>, date |-> Today, amount |-> 200000]
      [] i % 5 = 3 -> [label |-> <<"b", "a", "z">>, date |-> Today, amount |-> 0 - 12944398]
      [] OTHER -> [label |-> <<"b", "a", "z">>, date |-> Today, amount |-> 12944398]

\* Model::new(Some(filename)): load_sheets, each sheet cut to its first n rows
LoadedModel(n) ==
    [main_sheet |-> NewSheet(SheetName(0), [i \in 1..n |-> DefaultTransaction]),
     sheets |-> <<NewSheet(SheetName(1), [i \in 1..n |-> LoadedRow(i - 1)])>>]

sheet_count(m) == 1 + Len(m.sheets)

get_sheet(m, index) ==
    IF index = 0 THEN Some(m.main_sheet)
    ELSE IF index - 1 < Len(m.sheets) THEN Some(m.sheets[index])
    ELSE None

\* the number a run of decimal digits spells
RECURSIVE NumberValue(_)
NumberValue(s) ==
    IF s = <<>> THEN 0
    ELSE 10 * NumberValue(SubSeq(s, 1, Len(s) - 1))
             + (CHOOSE n \in 0..9 : DigitChar(n) = s[Len(s)])

\* Transaction::parse_date: NaiveDate::from_str reads the items of "%Y-%m-%d",
\* a year (a sign and any number of digits, or up to four digits), "-", a month
\* and "-", a day of up to two digits each, white space allowed around them;
\* what is left over is too long, and the three numbers must name a day of the
\* calendar. The message is that of From<ParseError> for
\* ParseTransactionMemberError.
parse_date(text) ==
    LET Message(kind) ==
            CASE kind = "OutOfRange" -> "Date is out of range"
              [] kind = "Impossible" -> "Date is impossible"
              [] kind = "NotEnough" -> "Not enough information"
              [] kind = "Invalid" -> "Invalid characters found"
              [] kind = "TooShort" -> "Input too short"
              [] kind = "TooLong" -> "Input too long"
              [] kind = "BadFormat" -> "Bad format"
              [] OTHER -> "Error parsing date from input"
        Fail(kind) == [ok |-> FALSE, kind |-> kind, rest |-> <<>>, vals |-> <<>>]
        \* str::trim_start
        TrimStart(s) ==
            SubSeq(s,
                   1 + (CHOOSE j \in 0..Len(s) :
                            /\ \A i \in 1..j : s[i] = " "
                            /\ j < Len(s) => s[j + 1] # " "),
                   Len(s))
        \* the digits at the start of s, top at most
        Run(s, top) ==
            CHOOSE j \in 0..top :
                /\ \A i \in 1..j : s[i] \in {DigitChar(d) : d \in 0..9}
                /\ j < top => s[j + 1] \notin {DigitChar(d) : d \in 0..9}
        Scanned(s, min, n) ==
            IF n < min THEN Fail("Invalid")
            ELSE [ok |-> TRUE, kind |-> "", rest |-> SubSeq(s, n + 1, Len(s)),
                  vals |-> <<NumberValue(SubSeq(s, 1, n))>>]
        \* scan::number(s, min, max): at least min and at most max digits
        number(s, min, max) ==
            IF Len(s) < min THEN Fail("TooShort")
            ELSE Scanned(s, min, Run(s, IF Len(s) < max THEN Len(s) ELSE max))
        Value(st, n, negative) ==
            IF ~n.ok THEN n
            ELSE [n EXCEPT !.vals = st.vals \o (IF negative THEN <<0 - @[1]>> ELSE @)]
        Signed(st, s, max, signed) ==
            IF signed /\ s # <<>> /\ s[1] \in {"-", "+"}
            THEN Value(st, number(Tail(s), 1, Len(s)), s[1] = "-")
            ELSE Value(st, number(s, 1, max), FALSE)
        \* Item::Numeric
        Numeric(st, max, signed) ==
            IF ~st.ok THEN st ELSE Signed(st, TrimStart(st.rest), max, signed)
        \* Item::Space
        Space(st) == IF st.ok THEN [st EXCEPT !.rest = TrimStart(@)] ELSE st
        \* Item::Literal("-")
        Literal(st) ==
            IF ~st.ok THEN st
            ELSE IF st.rest = <<>> THEN Fail("TooShort")
            ELSE IF st.rest[1] # "-" THEN Fail("Invalid")
            ELSE [st EXCEPT !.rest = Tail(@)]
        Item(item, st) ==
            CASE item = "year" -> Numeric(st, 4, TRUE)
              [] item = "number" -> Numeric(st, 2, FALSE)
              [] item = " " -> Space(st)
              [] item = "-" -> Literal(st)
        Items == <<"year", " ", "-", "number", " ", "-", "number", " ">>
        scan[i \in 0..Len(Items)] ==
            IF i = 0 THEN [ok |-> TRUE, kind |-> "", rest |-> text, vals |-> <<>>]
            ELSE Item(Items[i], scan[i - 1])
        DaysIn(y, m) ==
            IF m = 2 THEN (IF y % 4 = 0 /\ (y % 100 # 0 \/ y % 400 = 0) THEN 29 ELSE 28)
            ELSE IF m \in {4, 6, 9, 11} THEN 30 ELSE 31
        Error(kind) == [ok |-> FALSE, message |-> Message(kind)]
        Date(day) ==
            IF ~day.ok THEN Error(day.kind)
            ELSE IF day.rest # <<>> THEN Error("TooLong")
            ELSE IF \/ day.vals[2] \notin 1..12
                    \/ day.vals[3] \notin 1..DaysIn(day.vals[1], day.vals[2])
                 THEN Error("OutOfRange")
            ELSE [ok |-> TRUE, date |-> day.vals]
    IN Date(scan[Len(Items)])

\* Transaction::parse_amount: f64::from_str of the texts the model types, an
\* optional sign and decimal digits; the amount is in ten-thousandths
parse_amount(text) ==
    LET Number(digits, sign) ==
            IF \/ digits = <<>>
               \/ \E i \in 1..Len(digits) : digits[i] \notin {DigitChar(n) : n \in 0..9}
            THEN [ok |-> FALSE, message |-> "invalid float literal"]
            ELSE [ok |-> TRUE, amount |-> sign * NumberValue(digits) * 10000]
    IN IF text = <<>>
       THEN [ok |-> FALSE, message |-> "cannot parse float from empty string"]
       ELSE IF text[1] = "-" THEN Number(Tail(text), 0 - 1)
       ELSE IF text[1] = "+" THEN Number(Tail(text), 1)
       ELSE Number(text, 1)

\* the Model with the sheet at index replaced
PutSheet(m, index, sheet) ==
    IF index = 0 THEN [m EXCEPT !.main_sheet = sheet]
    ELSE [m EXCEPT !.sheets[index] = sheet]

\* an insert_row that puts the row in twice
insert_row_twice(m, sheet_index, row, value) ==
    LET Insert(sheet) ==
            IF ~sheet.some \/ row > Len(sheet.v.transactions) THEN None
            ELSE Some(PutSheet(m, sheet_index,
                     [sheet.v EXCEPT !.transactions =
                         SubSeq(@, 1, row) \o <<value, value>> \o SubSeq(@, row + 1, Len(@))]))
    IN Insert(get_sheet(m, sheet_index))

\* an insert_row that pushes the row to the end of the sheet
insert_row_pushed(m, sheet_index, row, value) ==
    LET Insert(sheet) ==
            IF ~sheet.some \/ row > Len(sheet.v.transactions) THEN None
            ELSE Some(PutSheet(m, sheet_index,
                     [sheet.v EXCEPT !.transactions = Append(@, value)]))
    IN Insert(get_sheet(m, sheet_index))

\* Model::insert_row: the Model after, or None where an unwrap or Vec::insert
\* panics
insert_row(m, sheet_index, row, value) ==
    LET Insert(sheet) ==
            IF ~sheet.some \/ row > Len(sheet.v.transactions) THEN None
            ELSE Some(PutSheet(m, sheet_index,
                     [sheet.v EXCEPT !.transactions =
                         SubSeq(@, 1, row) \o <<value>> \o SubSeq(@, row + 1, Len(@))]))
    IN Insert(get_sheet(m, sheet_index))

\* Vec::swap of the rows i and j (0-based)
SwapRows(rows, i, j) ==
    [k \in 1..Len(rows) |->
        IF k = i + 1 THEN rows[j + 1] ELSE IF k = j + 1 THEN rows[i + 1] ELSE rows[k]]

\* Model::move_transaction_up: the Model after, or None where unwrap or swap
\* panics
move_transaction_up(m, sheet_index, row) ==
    LET Swap(sheet) ==
            IF ~sheet.some \/ row >= Len(sheet.v.transactions) THEN None
            ELSE Some(PutSheet(m, sheet_index,
                     [sheet.v EXCEPT !.transactions = SwapRows(@, row, SatSub(row, 1))]))
    IN Swap(get_sheet(m, sheet_index))

\* a move_transaction_down that writes the row over the next without a swap
move_transaction_down_over(m, sheet_index, row) ==
    LET Over(sheet) ==
            IF ~sheet.some \/ row >= Len(sheet.v.transactions) THEN None
            ELSE Some(PutSheet(m, sheet_index,
                     [sheet.v EXCEPT !.transactions =
                         [k \in 1..Len(@) |->
                             IF k = Min(SatAdd(row, 1), Len(@) - 1) + 1 THEN @[row + 1]
                             ELSE @[k]]]))
    IN Over(get_sheet(m, sheet_index))

\* Model::move_transaction_down: the Model after, or None where unwrap, the
\* subtraction or swap panics
move_transaction_down(m, sheet_index, row) ==
    LET Swap(sheet) ==
            IF ~sheet.some \/ row >= Len(sheet.v.transactions) THEN None
            ELSE Some(PutSheet(m, sheet_index,
                     [sheet.v EXCEPT !.transactions =
                         SwapRows(@, row, Min(SatAdd(row, 1), Len(@) - 1))]))
    IN Swap(get_sheet(m, sheet_index))

\* a delete_row that removes the row after the one asked for, where there is one
delete_row_below(m, sheet_index, row) ==
    LET Remove(sheet) ==
            IF ~sheet.some \/ row >= Len(sheet.v.transactions) THEN None
            ELSE Some([model |-> PutSheet(m, sheet_index,
                                    [sheet.v EXCEPT !.transactions =
                                        IF row + 2 <= Len(@)
                                        THEN SubSeq(@, 1, row + 1) \o SubSeq(@, row + 3, Len(@))
                                        ELSE SubSeq(@, 1, row)]),
                       removed |-> At(sheet.v.transactions, row)])
    IN Remove(get_sheet(m, sheet_index))

\* Model::delete_row: the Model after and the row Vec::remove returns, or None
\* where unwrap or remove panics
delete_row(m, sheet_index, row) ==
    LET Remove(sheet) ==
            IF ~sheet.some \/ row >= Len(sheet.v.transactions) THEN None
            ELSE Some([model |-> PutSheet(m, sheet_index,
                                    [sheet.v EXCEPT !.transactions =
                                        SubSeq(@, 1, row) \o SubSeq(@, row + 2, Len(@))]),
                       removed |-> At(sheet.v.transactions, row)])
    IN Remove(get_sheet(m, sheet_index))

\* Model::create_sheet: a sheet named after its place, holding one default
\* transaction, pushed to the secondary sheets
create_sheet(m) ==
    [m EXCEPT !.sheets =
        Append(@, NewSheet(SheetName(Len(@) + 1), <<DefaultTransaction>>))]

\* Model::update_transaction_member with Transaction::update_date, update_label
\* and update_amount: the member is assigned only once its text has parsed
update_transaction_member(m, sheet_index, row, col, new) ==
    LET Done(ok, after, message) ==
            [panic |-> FALSE, ok |-> ok, model |-> after, message |-> message]
        Put(sheet, t) ==
            PutSheet(m, sheet_index, [sheet EXCEPT !.transactions[row + 1] = t])
        Date(sheet, date) ==
            IF date.ok
            THEN Done(TRUE, Put(sheet, [sheet.transactions[row + 1]
                                            EXCEPT !.date = date.date]), "")
            ELSE Done(FALSE, m, date.message)
        Amount(sheet, amount) ==
            IF amount.ok
            THEN Done(TRUE, Put(sheet, [sheet.transactions[row + 1]
                                            EXCEPT !.amount = amount.amount]), "")
            ELSE Done(FALSE, m, amount.message)
        Update(sheet) ==
            IF ~sheet.some \/ row >= Len(sheet.v.transactions)
            THEN [panic |-> TRUE, ok |-> FALSE, model |-> m, message |-> ""]
            ELSE CASE col = 0 -> Date(sheet.v, parse_date(new))
                   [] col = 1 ->
                        Done(TRUE, Put(sheet.v, [sheet.v.transactions[row + 1]
                                                     EXCEPT !.label = new]), "")
                   [] col = 2 -> Amount(sheet.v, parse_amount(new))
                   [] OTHER -> Done(TRUE, m, "")
    IN Update(get_sheet(m, sheet_index))

-----------------------------------------------------------------------------
(* View (view/mod.rs, view/states.rs) and ratatui's TableState *)

\* SheetState::new: the last row selected, no column, no visible rows yet
SheetStateNew(sheet) ==
    [selected |-> Some(SatSub(Len(sheet.transactions), 1)),
     column |-> None,
     visible_row_num |-> 0]

\* View::default()
ViewNew == [sheet_states |-> <<>>, selected_sheet |-> 0]

HasState(v, sheet) == sheet.name \in DOMAIN v.sheet_states

\* View::get_state_of: the stored state, created on first use
get_state_of(v, sheet) ==
    IF HasState(v, sheet) THEN v.sheet_states[sheet.name] ELSE SheetStateNew(sheet)

\* the View after get_state_of's entry has been replaced by st
PutState(v, sheet, st) ==
    [v EXCEPT !.sheet_states =
        [n \in (DOMAIN @) \cup {sheet.name} |-> IF n = sheet.name THEN st ELSE @[n]]]

\* the selected sheet; callers have checked that the index is valid
Selected(v, m) == get_sheet(m, v.selected_sheet).v

SheetValid(v, m) == get_sheet(m, v.selected_sheet).some

\* SheetState::scroll_to_row
scroll_to_row(st, row) == [st EXCEPT !.selected = Some(row)]

\* Option::unwrap_or(0) of TableState::selected()
SelectedOr0(st) == IF st.selected.some THEN st.selected.v ELSE 0

next_row(v, m) ==
    LET sheet == Selected(v, m)
        st == get_state_of(v, sheet)
        len == Max(Len(sheet.transactions), 1)
        next == IF st.selected.some /\ st.selected.v < SatSub(len, 1)
                THEN st.selected.v + 1
                ELSE SatSub(len, 1)
    IN PutState(v, sheet, scroll_to_row(st, next))

previous_row(v, m) ==
    LET sheet == Selected(v, m)
        st == get_state_of(v, sheet)
        prev == IF st.selected.some /\ st.selected.v > 0 THEN st.selected.v - 1 ELSE 0
    IN PutState(v, sheet, scroll_to_row(st, prev))

\* a first_row that lands one row too low
first_row_off_by_one(v, m) ==
    LET sheet == Selected(v, m)
    IN PutState(v, sheet, scroll_to_row(get_state_of(v, sheet), 1))

\* scroll_to_first: TableState::select_first
first_row(v, m) ==
    LET sheet == Selected(v, m)
    IN PutState(v, sheet, scroll_to_row(get_state_of(v, sheet), 0))

\* scroll_to_last: TableState::select_last selects usize::MAX until the next draw
last_row(v, m) ==
    LET sheet == Selected(v, m)
    IN PutState(v, sheet, scroll_to_row(get_state_of(v, sheet), USIZE_MAX))

\* TableState::select_next_column
next_column(v, m) ==
    LET sheet == Selected(v, m)
        st == get_state_of(v, sheet)
    IN PutState(v, sheet,
           [st EXCEPT !.column = IF @.some THEN Some(SatAdd(@.v, 1)) ELSE Some(0)])

\* TableState::select_previous_column
previous_column(v, m) ==
    LET sheet == Selected(v, m)
        st == get_state_of(v, sheet)
    IN PutState(v, sheet,
           [st EXCEPT !.column = IF @.some THEN Some(SatSub(@.v, 1)) ELSE Some(USIZE_MAX)])

up_by(v, count, m) ==
    LET sheet == Selected(v, m)
        st == get_state_of(v, sheet)
    IN PutState(v, sheet, scroll_to_row(st, SatSub(SelectedOr0(st), count)))

\* a down_by that ignores the count
down_by_one(v, count, m) ==
    LET sheet == Selected(v, m)
        st == get_state_of(v, sheet)
    IN PutState(v, sheet, scroll_to_row(st, SatAdd(SelectedOr0(st), 1)))

down_by(v, count, m) ==
    LET sheet == Selected(v, m)
        st == get_state_of(v, sheet)
    IN PutState(v, sheet, scroll_to_row(st, SatAdd(SelectedOr0(st), count)))

HalfPage(st) == Max(st.visible_row_num \div 2, 1)

half_up(v, m) ==
    LET sheet == Selected(v, m)
        st == get_state_of(v, sheet)
    IN PutState(v, sheet, scroll_to_row(st, SatSub(SelectedOr0(st), HalfPage(st))))

half_down(v, m) ==
    LET sheet == Selected(v, m)
        st == get_state_of(v, sheet)
    IN PutState(v, sheet, scroll_to_row(st, SatAdd(SelectedOr0(st), HalfPage(st))))

\* a next_sheet that stops at the last sheet
next_sheet_clamped(v, m) ==
    LET count == sheet_count(m)
    IN IF count > 0 THEN [v EXCEPT !.selected_sheet = Min(@ + 1, count - 1)] ELSE v

next_sheet(v, m) ==
    LET count == sheet_count(m)
    IN IF count > 0 THEN [v EXCEPT !.selected_sheet = (@ + 1) % count] ELSE v

previous_sheet(v, m) ==
    LET count == sheet_count(m)
    IN IF count > 0 THEN [v EXCEPT !.selected_sheet = (@ + count - 1) % count] ELSE v

\* the table has three columns: date, label, amount
ColumnCount == 3

\* a render whose table keeps a row selected when there is none to select
render_keeps_selection(v, m) ==
    LET sheet == Selected(v, m)
        st == get_state_of(v, sheet)
        len == Len(sheet.transactions)
        sel == IF st.selected.some /\ st.selected.v >= len THEN Some(SatSub(len, 1))
               ELSE st.selected
        col == IF st.column.some /\ st.column.v >= ColumnCount
               THEN Some(ColumnCount - 1)
               ELSE st.column
    IN PutState(v, sheet,
           [selected |-> sel, column |-> col, visible_row_num |-> VisibleRows])

\* View::render: the state of the selected sheet is fetched (created on first
\* use), SheetWidget::render stores the visible row count, and the Table widget
\* brings the selection back inside the table
render(v, m) ==
    LET sheet == Selected(v, m)
        st == get_state_of(v, sheet)
        len == Len(sheet.transactions)
        sel == IF len = 0 THEN None
               ELSE IF st.selected.some /\ st.selected.v >= len THEN Some(len - 1)
               ELSE st.selected
        col == IF st.column.some /\ st.column.v >= ColumnCount
               THEN Some(ColumnCount - 1)
               ELSE st.column
    IN PutState(v, sheet,
           [selected |-> sel, column |-> col, visible_row_num |-> VisibleRows])

-----------------------------------------------------------------------------
(* Events (crossterm) *)

Digits == {"0", "1", "2", "3", "4", "5", "6", "7", "8", "9"}

\* char::to_digit(10)
to_digit(c) ==
    IF c \in Digits THEN Some(CHOOSE n \in 0..9 : DigitChar(n) = c) ELSE None

\* the KeyCode::Char codes the model types
CharCodes ==
    Digits \cup {"q", "j", "k", "h", "l", "g", "G", "H", "L", "x", "?", "y", "n",
                 "c", "d", "u", "t", "r", "m", "i", "o", "O", "-", "J", "K", "p", "P",
                 "<", "C", ">"}

Press(code, mods) == [kind |-> "Press", code |-> code, mods |-> mods]
Release(code) == [kind |-> "Release", code |-> code, mods |-> {}]
\* KeyEventKind::Repeat: the key is held down
Repeat(code) == [kind |-> "Repeat", code |-> code, mods |-> {}]
Plain(code) == Press(code, {})
Ctrl(code) == Press(code, {"CONTROL"})
Shift(code) == Press(code, {"SHIFT"})
Alt(code) == Press(code, {"ALT"})
\* an Event that is no key event (a resize)
Resize == [kind |-> "Resize", code |-> "", mods |-> {}]
\* event::poll timing out
NoEvent == [kind |-> "Timeout", code |-> "", mods |-> {}]

-----------------------------------------------------------------------------
(* CommandTrie (controller/commands.rs) with the bindings of Controller::new *)

\* the token handle_modified_char pushes for Ctrl + c
Token(c) == <<"<", "C", "-", c, ">">>
TokenDel == <<"<", "C", "-", "D", "e", "l", ">">>

\* the command strings added to the trie
Commands ==
    {<<"q">>, Token("c"), <<"j">>, <<"k">>, <<"h">>, <<"l">>, <<"i">>, <<"g", "g">>,
     <<"G">>, <<"H">>, <<"L">>, <<"J">>, <<"K">>, <<"y">>, <<"d">>, <<"p">>, <<"P">>,
     <<"o">>, <<"O">>, Token("d"), Token("u"), Token("t"), Token("r"), TokenDel,
     <<"?">>}

\* CommandTrie::traverse: the node a path leads to, named by the path
traverse(chars) ==
    IF \E c \in Commands : IsPrefix(chars, c) THEN Some(chars) ELSE None

has_children(node) == \E c \in Commands : IsPrefix(node, c) /\ Len(c) > Len(node)

has_action(node) == node \in Commands

-----------------------------------------------------------------------------
(* Popups (controller/popup/mod.rs, controller/popup/defaults.rs) *)

\* defaults::help: an Info popup
HelpPopup ==
    [kind |-> "Info", text |-> <<"h", "e", "l", "p">>, title |-> "Help",
     subtitle |-> None, error |-> None, on_submit |-> [f |-> "none"]]

\* InputInner::new(title, f) followed by with_text(initial)
InputPopup(title, f, initial) ==
    [kind |-> "Input", text |-> initial, title |-> title,
     subtitle |-> None, error |-> None, on_submit |-> f]

\* InputPopup::with_subtitle
with_subtitle(p, subtitle) == [p EXCEPT !.subtitle = Some(subtitle)]

\* a with_error that empties the text area
with_error_clearing(p, error) == [p EXCEPT !.error = Some(error), !.text = <<>>]

\* InputPopup::with_error
with_error(p, error) == [p EXCEPT !.error = Some(error)]

\* a step of the new-row wizard: InputInner::new("Insert row", f), with_subtitle
InsertRowPopup(f, subtitle) == with_subtitle(InputPopup("Insert row", f, <<>>), subtitle)

\* the decimal digits of n, padded with zeros to width
RECURSIVE NumberText(_, _)
NumberText(n, width) ==
    IF n < 10 /\ width <= 1 THEN <<DigitChar(n)>>
    ELSE Append(NumberText(n \div 10, width - 1), DigitChar(n % 10))

\* view::format_currency: "$" and the amount with two decimals, in brackets
\* when negative
format_currency(a) ==
    LET cents == ((IF a >= 0 THEN a ELSE 0 - a) + 50) \div 100
        text == NumberText(cents \div 100, 2) \o <<".">> \o NumberText(cents % 100, 2)
    IN IF a >= 0 THEN <<"$">> \o text ELSE <<"$", "(">> \o text \o <<")">>

\* view::get_string_of_transaction_member: the text the table shows in a cell,
\* the date as DATE_FORMAT_STRING "%d/%m/%Y" formats it
get_string_of_transaction_member(t, col) ==
    CASE col = 0 ->
           NumberText(t.date[3], 2) \o <<"/">> \o NumberText(t.date[2], 2) \o <<"/">>
               \o (IF t.date[1] < 0 THEN <<"-">> \o NumberText(0 - t.date[1], 4)
                    ELSE NumberText(t.date[1], 4))
      [] col = 1 -> t.label
      [] col = 2 -> format_currency(t.amount)
      [] OTHER -> <<>>

\* View::get_selected_cell: TableState::selected_cell of the sheet's state
get_selected_cell(v, sheet) ==
    LET st == get_state_of(v, sheet)
    IN IF st.selected.some /\ st.column.some
       THEN Some([row |-> st.selected.v, col |-> st.column.v])
       ELSE None

\* defaults::rename_sheet
RenamePopup(v, m) ==
    InputPopup("Rename sheet",
               [f |-> "rename_sheet", sheet_index |-> v.selected_sheet],
               Selected(v, m).name)

\* Model::get_sheet_mut(index).name = text
SetSheetName(m, index, text) ==
    IF index = 0 THEN [m EXCEPT !.main_sheet.name = text]
    ELSE [m EXCEPT !.sheets[index].name = text]

\* TextArea::input for a cursor at the end of the buffer, the buffer held as
\* its characters with "\n" between two lines: a character without Ctrl or Alt
\* is appended, Ctrl+m starts a new line, Backspace removes the last character
\* (joining two lines at the start of a line), and the keys that would move the
\* cursor forward leave the buffer alone
TextInput(text, e) ==
    IF e.code \in CharCodes /\ e.mods \subseteq {"SHIFT"} THEN Append(text, e.code)
    ELSE IF e.code = "m" /\ e.mods = {"CONTROL"} THEN Append(text, "\n")
    ELSE IF e.code = "Backspace" /\ text # <<>> THEN SubSeq(text, 1, Len(text) - 1)
    ELSE text

\* a submission that drops the line breaks without the space between lines
SubmittedTextNoJoin(text) == SelectSeq(text, LAMBDA c : c # "\n" /\ c # "\r")

\* lines().join(" "), then retain(|c| c != '\n' && c != '\r')
SubmittedText(text) ==
    SelectSeq([i \in 1..Len(text) |-> IF text[i] = "\n" THEN " " ELSE text[i]],
              LAMBDA c : c # "\n" /\ c # "\r")

\* what a popup's handle_key_event leaves: the popup that stays (or None), the
\* Model, the callback invocations it made, and whether it panicked
Result(pp, m, calls, panic) ==
    [popup |-> pp, model |-> m, called |-> calls, panic |-> panic]

\* the on_submit closures of the Input popups
Submit(p, text, m) ==
    LET call == <<[f |-> p.on_submit, arg |-> text]>>
    IN CASE p.on_submit.f = "rename_sheet" ->
              IF get_sheet(m, p.on_submit.sheet_index).some
              THEN Result(None, SetSheetName(m, p.on_submit.sheet_index, text),
                          call, FALSE)
              ELSE Result(None, m, call, TRUE)
         [] p.on_submit.f = "new_row_date" ->
              LET Label(d) ==
                      Result(Some(InsertRowPopup(
                                 [f |-> "new_row_label",
                                  sheet_index |-> p.on_submit.sheet_index,
                                  row |-> p.on_submit.row, date |-> d],
                                 "(Label)")),
                             m, call, FALSE)
                  Parsed(date) ==
                      IF date.ok THEN Label(date.date)
                      ELSE Result(Some(with_error(p, date.message)), m, call, FALSE)
              IN IF text = <<>> THEN Label(Today) ELSE Parsed(parse_date(text))
         [] p.on_submit.f = "new_row_label" ->
              Result(Some(InsertRowPopup([f |-> "new_row_amount",
                                          sheet_index |-> p.on_submit.sheet_index,
                                          row |-> p.on_submit.row,
                                          date |-> p.on_submit.date, label |-> text],
                                         "(Amount)")),
                     m, call, FALSE)
         [] p.on_submit.f = "new_row_amount" ->
              LET Inserted(after) ==
                      IF after.some THEN Result(None, after.v, call, FALSE)
                      ELSE Result(None, m, call, TRUE)
                  Parsed(amount) ==
                      IF ~amount.ok
                      THEN Result(Some(with_error(p, amount.message)), m, call, FALSE)
                      ELSE Inserted(insert_row(m, p.on_submit.sheet_index,
                                               p.on_submit.row,
                                               [label |-> p.on_submit.label,
                                                date |-> p.on_submit.date,
                                                amount |-> amount.amount]))
              IN Parsed(parse_amount(text))
         [] p.on_submit.f = "insert_action" ->
              LET Updated(r) ==
                      IF r.panic THEN Result(None, m, call, TRUE)
                      ELSE IF r.ok THEN Result(None, r.model, call, FALSE)
                      ELSE Result(Some(with_error(p, r.message)), m, call, FALSE)
              IN Updated(update_transaction_member(m, p.on_submit.sheet_index,
                                                   p.on_submit.row, p.on_submit.col,
                                                   text))

\* an Input popup whose Esc submits the text like Enter
InputPopupKeyEscSubmits(p, e, m) ==
    IF e.code \in {"Enter", "Esc"} THEN Submit(p, SubmittedText(p.text), m)
    ELSE Result(Some([p EXCEPT !.text = TextInput(@, e)]), m, <<>>, FALSE)

\* InputPopup::handle_key_event
InputPopupKey(p, e, m) ==
    IF e.code = "Enter" THEN Submit(p, SubmittedText(p.text), m)
    ELSE IF e.code = "Esc" THEN Result(None, m, <<>>, FALSE)
    ELSE Result(Some([p EXCEPT !.text = TextInput(@, e)]), m, <<>>, FALSE)

\* an Info popup that only "q" dismisses
InfoPopupKeyOnlyQ(p, e, m) ==
    IF e.code = "q" THEN Result(None, m, <<>>, FALSE)
    ELSE Result(Some(p), m, <<>>, FALSE)

\* an Info popup that any key dismisses
InfoPopupKeyAnyKey(p, e, m) == Result(None, m, <<>>, FALSE)

\* InfoPopup::handle_key_event
InfoPopupKey(p, e, m) ==
    IF e.code \in {"Esc", "q"} THEN Result(None, m, <<>>, FALSE)
    ELSE Result(Some(p), m, <<>>, FALSE)

\* Model::delete_sheet: the Model after, or None where the assertion fails
delete_sheet(m, index) ==
    IF index = 0 \/ index - 1 >= Len(m.sheets) THEN None
    ELSE Some([m EXCEPT !.sheets =
                   SubSeq(@, 1, index - 1) \o SubSeq(@, index + 1, Len(@))])

\* ConfirmInner::new(title, prompt, f)
ConfirmPopup(title, prompt, f) ==
    [kind |-> "Confirm", text |-> prompt, title |-> title,
     subtitle |-> None, error |-> None, on_submit |-> f]

\* defaults::delete_sheet: asks before Model::delete_sheet of the selected sheet
DeleteSheetPopup(v) ==
    ConfirmPopup("Delete sheet", <<"s", "u", "r", "e", "?">>,
                 [f |-> "delete_sheet", sheet_index |-> v.selected_sheet])

\* the on_submit closure of a Confirm popup, called with the choice
Confirmed(p, choice, m) ==
    LET call == <<[f |-> p.on_submit, arg |-> choice]>>
        after == delete_sheet(m, p.on_submit.sheet_index)
    IN IF ~choice THEN Result(None, m, call, FALSE)
       ELSE IF after.some THEN Result(None, after.v, call, FALSE)
       ELSE Result(None, m, call, TRUE)

\* a Confirm popup that takes "n" for a dismissal
ConfirmPopupKeyNoIsCancel(p, e, m) ==
    IF e.code \in {"y", "Enter"} THEN Confirmed(p, TRUE, m)
    ELSE IF e.code \in {"n", "q", "Esc"} THEN Result(None, m, <<>>, FALSE)
    ELSE Result(Some(p), m, <<>>, FALSE)

\* ConfirmPopup::handle_key_event
ConfirmPopupKey(p, e, m) ==
    IF e.code \in {"y", "Enter"} THEN Confirmed(p, TRUE, m)
    ELSE IF e.code = "n" THEN Confirmed(p, FALSE, m)
    ELSE IF e.code \in {"q", "Esc"} THEN Result(None, m, <<>>, FALSE)
    ELSE Result(Some(p), m, <<>>, FALSE)

\* Popup::handle_key_event (enum_dispatch)
PopupHandleKey(p, e, m) ==
    CASE p.kind = "Input" -> InputPopupKey(p, e, m)
      [] p.kind = "Confirm" -> ConfirmPopupKey(p, e, m)
      [] OTHER -> InfoPopupKey(p, e, m)

-----------------------------------------------------------------------------
(* Controller (controller/mod.rs) *)

\* the row selected in the selected sheet, as the history records it
CurrentRow(v, m) ==
    IF SheetValid(v, m) THEN get_state_of(v, Selected(v, m)).selected ELSE None

\* View::get_selected_row: the row the sheet's table state has selected
get_selected_row(v, sheet) == get_state_of(v, sheet).selected

\* Model::copy_row
copy_row(m, sheet_index, row) == At(get_sheet(m, sheet_index).v.transactions, row)

\* what the history keeps of the state a key event found; modal is the popup it
\* found, opened the Model and the selected sheet as they were when that popup
\* was opened
Before ==
    [last_nums |-> last_nums, last_chars |-> last_chars, row |-> CurrentRow(view, model),
     sheet |-> view.selected_sheet, popup |-> popup.some, modal |-> popup,
     counted |-> trace.ran \in {<<"j">>, <<"k">>} /\ trace.before.last_nums # <<>>,
     opened |-> IF popup.some /\ trace.before.popup
                THEN trace.before.opened
                ELSE [model |-> model, sheet |-> view.selected_sheet]]

\* the commands whose actions start from View::get_selected_sheet or get_sheet
NeedsSheet ==
    {<<"j">>, <<"k">>, <<"h">>, <<"l">>, <<"g", "g">>, <<"G">>, Token("d"), Token("u"),
     Token("r"), <<"y">>, <<"i">>, <<"o">>, <<"O">>, <<"J">>, <<"K">>, <<"d">>,
     <<"p">>, <<"P">>}

\* a count test that looks at the value of the count instead of its presence
HasCountByValue(nums) == AsUsize(get_count_amount(nums)) # 0

\* !cs.last_nums.is_empty(): whether "j" and "k" move by a count
HasCount(nums) == nums # <<>>

\* a paste that takes the record out of the register
PasteTaking(same, at, below) ==
    LET Inserted(after) ==
            IF after.some
            THEN [same EXCEPT !.model = after.v,
                              !.view = IF below THEN next_row(@, after.v) ELSE @,
                              !.register = None]
            ELSE [same EXCEPT !.panic = TRUE]
    IN IF ~same.register.some THEN same
       ELSE Inserted(insert_row(same.model, same.view.selected_sheet, at,
                                same.register.v))

\* the closures of "p" and "P" once a row is selected: a clone of the register's
\* record is inserted at the index, and "p" (below) moves the selection on
Paste(same, at, below) ==
    LET Inserted(after) ==
            IF after.some
            THEN [same EXCEPT !.model = after.v,
                              !.view = IF below THEN next_row(@, after.v) ELSE @]
            ELSE [same EXCEPT !.panic = TRUE]
    IN IF ~same.register.some THEN same
       ELSE Inserted(insert_row(same.model, same.view.selected_sheet, at,
                                same.register.v))

\* the closures Controller::new binds: the state after the action of cmd
Action(cmd, v, m, cs) ==
    LET same == [view |-> v, model |-> m, popup |-> cs.popup, exit |-> cs.exit,
                 register |-> cs.register, panic |-> FALSE]
        \* the Model after a call that may panic, then the move of the selection
        Moved(after, move(_, _)) ==
            IF after.some THEN [same EXCEPT !.model = after.v, !.view = move(v, after.v)]
            ELSE [same EXCEPT !.panic = TRUE]
        Deleted(after) ==
            IF after.some
            THEN [same EXCEPT !.model = after.v.model, !.register = Some(after.v.removed)]
            ELSE [same EXCEPT !.panic = TRUE]
        sheet_index == v.selected_sheet
        row == get_selected_row(v, Selected(v, m))
        row_or_0 == IF row.some THEN row.v ELSE 0
        cell == get_selected_cell(v, Selected(v, m))
    IN CASE cmd \in {<<"q">>, Token("c")} -> [same EXCEPT !.exit = TRUE]
         [] cmd = <<"j">> ->
              [same EXCEPT !.view =
                  IF ~HasCount(cs.last_nums) THEN next_row(v, m)
                  ELSE down_by(v, AsUsize(get_count_amount(cs.last_nums)), m)]
         [] cmd = <<"k">> ->
              [same EXCEPT !.view =
                  IF ~HasCount(cs.last_nums) THEN previous_row(v, m)
                  ELSE up_by(v, AsUsize(get_count_amount(cs.last_nums)), m)]
         [] cmd = <<"h">> -> [same EXCEPT !.view = previous_column(v, m)]
         [] cmd = <<"l">> -> [same EXCEPT !.view = next_column(v, m)]
         [] cmd = <<"g", "g">> -> [same EXCEPT !.view = first_row(v, m)]
         [] cmd = <<"G">> -> [same EXCEPT !.view = last_row(v, m)]
         [] cmd = <<"H">> -> [same EXCEPT !.view = previous_sheet(v, m)]
         [] cmd = <<"L">> -> [same EXCEPT !.view = next_sheet(v, m)]
         [] cmd = <<"J">> ->
              IF row.some
              THEN Moved(move_transaction_down(m, sheet_index, row.v), next_row)
              ELSE same
         [] cmd = <<"K">> ->
              IF row.some
              THEN Moved(move_transaction_up(m, sheet_index, row.v), previous_row)
              ELSE same
         [] cmd = <<"y">> ->
              IF row.some
              THEN [same EXCEPT !.register = Some(copy_row(m, sheet_index, row.v))]
              ELSE same
         [] cmd = <<"d">> ->
              IF row.some THEN Deleted(delete_row(m, sheet_index, row.v)) ELSE same
         [] cmd = <<"p">> ->
              IF row.some THEN Paste(same, row.v + 1, TRUE) ELSE same
         [] cmd = <<"P">> ->
              IF row.some THEN Paste(same, row.v, FALSE) ELSE same
         [] cmd = <<"i">> ->
              IF cell.some
              THEN [same EXCEPT !.popup =
                       Some(InputPopup("Insert/Update value",
                                       [f |-> "insert_action",
                                        sheet_index |-> sheet_index,
                                        row |-> cell.v.row, col |-> cell.v.col],
                                       get_string_of_transaction_member(
                                           At(Selected(v, m).transactions, cell.v.row),
                                           cell.v.col)))]
              ELSE same
         [] cmd = <<"o">> ->
              [same EXCEPT !.popup =
                  Some(InsertRowPopup([f |-> "new_row_date",
                                       sheet_index |-> sheet_index,
                                       row |-> Min(row_or_0 + 1,
                                                   Len(Selected(v, m).transactions))],
                                      "(Date - leave blank for today)"))]
         [] cmd = <<"O">> ->
              [same EXCEPT !.popup =
                  Some(InsertRowPopup([f |-> "new_row_date",
                                       sheet_index |-> sheet_index, row |-> row_or_0],
                                      "(Date - leave blank for today)"))]
         [] cmd = Token("d") -> [same EXCEPT !.view = half_down(v, m)]
         [] cmd = Token("u") -> [same EXCEPT !.view = half_up(v, m)]
         [] cmd = Token("t") -> [same EXCEPT !.model = create_sheet(m)]
         [] cmd = Token("r") -> [same EXCEPT !.popup = Some(RenamePopup(v, m))]
         [] cmd = TokenDel -> [same EXCEPT !.popup = Some(DeleteSheetPopup(v))]
         [] cmd = <<"?">> -> [same EXCEPT !.popup = Some(HelpPopup)]

\* Controller::try_action: the command to run, if last_chars spells one
try_action(chars) ==
    LET node == traverse(chars)
    IN IF node.some /\ ~has_children(node.v) /\ has_action(node.v)
       THEN Some(node.v)
       ELSE None

\* a loop that goes round again without a look at the exit flag
AfterEventNoTest(ex) == "draw"

\* the loop's test of the exit flag after an event
AfterEvent(ex) == IF ex THEN "done" ELSE "draw"

\* a reset_command that forgets to clear the digits
reset_nums_kept(nums) == nums

\* Controller::reset_command, on last_nums
reset_nums(nums) == <<>>

\* a reset_command that forgets to clear the characters
reset_chars_kept(chars) == chars

\* Controller::reset_command, on last_chars
reset_chars(chars) == <<>>

\* the else branch of try_action that forgets to clear the digits
clear_nums_kept(nums) == nums

\* the else branch of try_action: last_nums.clear()
clear_nums(nums) == <<>>

\* Controller::try_action on the characters accumulated: the controller state,
\* the View and the Model it leaves, the command it ran, whether it panicked
Tried(chars, v, m, cs) ==
    LET kept == [view |-> v, model |-> m, popup |-> cs.popup, exit |-> cs.exit,
                 register |-> cs.register, last_chars |-> cs.last_chars,
                 last_nums |-> cs.last_nums, ran |-> <<>>, panic |-> FALSE]
        Acted(cmd, r) ==
            [view |-> r.view, model |-> r.model, popup |-> r.popup, exit |-> r.exit,
             register |-> r.register, last_chars |-> reset_chars(chars),
             last_nums |-> reset_nums(cs.last_nums), ran |-> cmd, panic |-> r.panic]
        Try(cmd) ==
            IF cmd.some
            THEN IF cmd.v \in NeedsSheet /\ ~SheetValid(v, m)
                 THEN [kept EXCEPT !.panic = TRUE]
                 ELSE Acted(cmd.v, Action(cmd.v, v, m, cs))
            ELSE [kept EXCEPT !.last_chars = chars,
                              !.last_nums = clear_nums(cs.last_nums)]
    IN Try(try_action(chars))

\* the controller state as the closures and try_action see it
ControllerState ==
    [last_nums |-> last_nums, last_chars |-> last_chars, popup |-> popup,
     exit |-> exit, register |-> register]

\* the tail of Controller::handle_key_event once chars has been accumulated:
\* try_action and the exit test of the loop
Dispatch(e, chars) ==
    LET Done(r) ==
            /\ view' = r.view
            /\ model' = r.model
            /\ popup' = r.popup
            /\ exit' = r.exit
            /\ register' = r.register
            /\ last_chars' = r.last_chars
            /\ last_nums' = r.last_nums
            /\ pc' = IF r.panic THEN "aborted" ELSE AfterEvent(r.exit)
            /\ trace' = [key |-> e, ran |-> r.ran, before |-> Before, called |-> <<>>]
    IN Done(Tried(chars, view, model, ControllerState))

\* a test of the event kind that lets a held key through
IsPressOrRepeat(e) == e.kind \in {"Press", "Repeat"}

\* key_event.kind == KeyEventKind::Press
IsPress(e) == e.kind = "Press"

\* handle_events: an event that is no key press is dropped
IgnoredEvent(e) ==
    /\ pc = "poll"
    /\ ~IsPress(e)
    /\ pc' = AfterEvent(exit)
    /\ trace' = [key |-> e, ran |-> <<>>, before |-> Before, called |-> <<>>]
    /\ UNCHANGED <<model, view, last_nums, last_chars, popup, exit, register>>

\* a handle_key_event that forgets to return after the popup took the key, so
\* that "q" goes on to its binding
PopupKeyNoReturn(e) ==
    /\ pc = "poll"
    /\ IsPress(e)
    /\ popup.some
    /\ LET r == PopupHandleKey(popup.v, e, model)
       IN /\ popup' = r.popup
          /\ model' = r.model
          /\ exit' = (exit \/ e.code = "q")
          /\ pc' = IF r.panic THEN "aborted" ELSE AfterEvent(exit')
    /\ trace' = [key |-> e, ran |-> IF e.code = "q" THEN <<"q">> ELSE <<>>,
                 before |-> Before,
                 called |-> PopupHandleKey(popup.v, e, model).called]
    /\ UNCHANGED <<view, last_nums, last_chars, register>>

\* a handle_key_event that rebuilds the state around the popup's answer, the
\* exit flag back at its default
PopupKeyClearsExit(e) ==
    /\ pc = "poll"
    /\ IsPress(e)
    /\ popup.some
    /\ LET r == PopupHandleKey(popup.v, e, model)
       IN /\ popup' = r.popup
          /\ model' = r.model
          /\ pc' = IF r.panic THEN "aborted" ELSE "draw"
    /\ exit' = FALSE
    /\ trace' = [key |-> e, ran |-> <<>>, before |-> Before,
                 called |-> PopupHandleKey(popup.v, e, model).called]
    /\ UNCHANGED <<view, last_nums, last_chars, register>>

\* a handle_key_event that rebuilds the whole controller state around the
\* popup's answer: the accumulators, the exit flag and the register at their
\* defaults
PopupKeyDefaultState(e) ==
    /\ pc = "poll"
    /\ IsPress(e)
    /\ popup.some
    /\ LET r == PopupHandleKey(popup.v, e, model)
       IN /\ popup' = r.popup
          /\ model' = r.model
          /\ pc' = IF r.panic THEN "aborted" ELSE "draw"
    /\ last_nums' = <<>>
    /\ last_chars' = <<>>
    /\ exit' = FALSE
    /\ register' = None
    /\ trace' = [key |-> e, ran |-> <<>>, before |-> Before,
                 called |-> PopupHandleKey(popup.v, e, model).called]
    /\ UNCHANGED view

\* the texts typed into the popups of the new-row wizard and of insert_action:
\* the shortest date, two amounts, and what is typed on the way to them
TypedTexts == {<<"1", "-", "1", "-", "1">>, <<"1", "1">>, <<"-", "1">>}

\* the buffers the model lets an Input popup hold: a sheet name of up to
\* MaxText characters, a text on the way to one of TypedTexts, or what
\* deleting leaves
Typeable(p, text) ==
    \/ Len(text) <= Len(p.text)
    \/ IF p.on_submit.f = "rename_sheet" THEN Len(text) <= MaxText
       ELSE \E w \in TypedTexts : IsPrefix(text, w)

\* handle_key_event with a popup open: the popup takes the key
PopupKey(e) ==
    /\ pc = "poll"
    /\ IsPress(e)
    /\ popup.some
    /\ popup.v.kind = "Input" =>
           /\ Typeable(popup.v, TextInput(popup.v.text, e))
           /\ (e.code = "Enter" /\ popup.v.on_submit.f = "rename_sheet") =>
                  \/ SubmittedText(popup.v.text) \in DOMAIN view.sheet_states
                  \/ Cardinality(DOMAIN view.sheet_states) < MaxStates
    /\ LET Taken(r) ==
               /\ popup' = r.popup
               /\ model' = r.model
               /\ pc' = IF r.panic THEN "aborted" ELSE AfterEvent(exit)
               /\ trace' = [key |-> e, ran |-> <<>>, before |-> Before,
                            called |-> r.called]
       IN Taken(PopupHandleKey(popup.v, e, model))
    /\ UNCHANGED <<view, last_nums, last_chars, exit, register>>

\* what pushing a digit leaves of last_chars: the source does not touch it
PushDigit(chars) == chars

\* KeyCode::Char(c), no Ctrl, c a decimal digit: pushed to last_nums, and return
DigitKey(e, max) ==
    /\ pc = "poll"
    /\ IsPress(e)
    /\ ~popup.some
    /\ e.code \in CharCodes
    /\ "CONTROL" \notin e.mods
    /\ to_digit(e.code).some
    /\ Len(last_nums) < max
    /\ last_nums' = Append(last_nums, to_digit(e.code).v)
    /\ last_chars' = PushDigit(last_chars)
    /\ pc' = AfterEvent(exit)
    /\ trace' = [key |-> e, ran |-> <<>>, before |-> Before, called |-> <<>>]
    /\ UNCHANGED <<model, view, popup, exit, register>>

\* KeyCode::Char(c), no Ctrl, c no digit: pushed to last_chars, then try_action
CharKey(e) ==
    /\ pc = "poll"
    /\ IsPress(e)
    /\ ~popup.some
    /\ e.code \in CharCodes
    /\ "CONTROL" \notin e.mods
    /\ ~to_digit(e.code).some
    /\ Len(last_chars) <= MaxPending
    /\ Dispatch(e, Append(last_chars, e.code))

\* Controller::handle_modified_char
handle_modified_char(chars, c) == chars \o Token(c)

\* KeyCode::Char(c) with Ctrl held
ModifiedCharKey(e) ==
    /\ pc = "poll"
    /\ IsPress(e)
    /\ ~popup.some
    /\ e.code \in CharCodes
    /\ "CONTROL" \in e.mods
    /\ Len(last_chars) <= MaxPending
    /\ Dispatch(e, handle_modified_char(last_chars, e.code))

\* KeyCode::Backspace | KeyCode::Esc: reset_command, then try_action
ResetKey(e) ==
    /\ pc = "poll"
    /\ IsPress(e)
    /\ ~popup.some
    /\ e.code \in {"Backspace", "Esc"}
    /\ last_nums' = clear_nums(reset_nums(last_nums))
    /\ last_chars' = reset_chars(last_chars)
    /\ pc' = AfterEvent(exit)
    /\ trace' = [key |-> e, ran |-> <<>>, before |-> Before, called |-> <<>>]
    /\ UNCHANGED <<model, view, popup, exit, register>>

\* an arrow mapping that takes Down for the "d" of delete
ArrowLetterDownIsD(code) ==
    CASE code = "Up" -> "k" [] code = "Down" -> "d" [] code = "Left" -> "h"
      [] code = "Right" -> "l"

ArrowLetter(code) ==
    CASE code = "Up" -> "k" [] code = "Down" -> "j" [] code = "Left" -> "h"
      [] code = "Right" -> "l"

\* Controller::handle_special_key: what the key appends to last_chars
handle_special_key(chars, e) ==
    LET arrow == e.code \in {"Up", "Down", "Left", "Right"}
    IN CASE e.mods = {"CONTROL"} /\ arrow ->
              handle_modified_char(chars, ArrowLetter(e.code))
         [] e.mods = {"CONTROL"} /\ e.code = "Delete" -> chars \o TokenDel
         [] e.mods = {"SHIFT"} /\ e.code = "Up" -> Append(chars, "K")
         [] e.mods = {"SHIFT"} /\ e.code = "Down" -> Append(chars, "J")
         [] e.mods = {"SHIFT"} /\ e.code = "Left" -> Append(chars, "H")
         [] e.mods = {"SHIFT"} /\ e.code = "Right" -> Append(chars, "L")
         [] e.mods \notin {{"CONTROL"}, {"SHIFT"}} /\ arrow ->
              Append(chars, ArrowLetter(e.code))
         [] e.code = "PageUp" -> handle_modified_char(chars, "u")
         [] e.code = "PageDown" -> handle_modified_char(chars, "d")
         [] e.code = "Home" -> chars \o <<"g", "g">>
         [] e.code = "End" -> Append(chars, "G")
         [] OTHER -> chars

\* any other key code: handle_special_key, then try_action
SpecialKey(e) ==
    /\ pc = "poll"
    /\ IsPress(e)
    /\ ~popup.some
    /\ e.code \notin CharCodes \cup {"Backspace", "Esc"}
    /\ Len(last_chars) <= MaxPending
    /\ Dispatch(e, handle_special_key(last_chars, e))

-----------------------------------------------------------------------------
(* run_program (main.rs) *)

\* terminal.draw(|frame| view.render(frame, &model, &controller.state))
Draw ==
    /\ pc = "draw"
    /\ IF SheetValid(view, model)
       THEN view' = render(view, model) /\ pc' = "poll"
       ELSE view' = view /\ pc' = "aborted"
    /\ UNCHANGED <<model, last_nums, last_chars, popup, exit, register, trace>>

\* event::poll returns false: the loop draws again
PollTimeout ==
    /\ pc = "poll"
    /\ pc' = AfterEvent(exit)
    /\ trace' = [key |-> NoEvent, ran |-> <<>>, before |-> Before, called |-> <<>>]
    /\ UNCHANGED <<model, view, last_nums, last_chars, popup, exit, register>>

\* Model::new, View::new, Controller::new
InitWith(m) ==
    /\ model = m
    /\ view = ViewNew
    /\ last_nums = <<>>
    /\ last_chars = <<>>
    /\ popup = None
    /\ exit = FALSE
    /\ register = None
    /\ pc = "draw"
    /\ trace = [key |-> NoEvent, ran |-> <<>>,
                before |-> [last_nums |-> <<>>, last_chars |-> <<>>, row |-> None,
                            sheet |-> 0, popup |-> FALSE, modal |-> None,
                            counted |-> FALSE,
                            opened |-> [model |-> m, sheet |-> 0]],
                called |-> <<>>]

Init == \E m \in {ScratchModel, LoadedModel(MaxRows)} : InitWith(m)

-----------------------------------------------------------------------------
(* The navigation machine: counts, rows, the two-key command, quitting *)

NavEvents ==
    {Plain(c) : c \in {"0", "1", "2", "j", "k", "g", "G", "q", "x"}}
        \cup {Ctrl("d"), Ctrl("u"), Plain("Esc"), Plain("Backspace"), Plain("Tab"),
              Plain("Home"), Plain("Down"), Release("j")}

NavKey ==
    \E e \in NavEvents :
        \/ IgnoredEvent(e)
        \/ DigitKey(e, MaxNums)
        \/ CharKey(e)
        \/ ModifiedCharKey(e)
        \/ ResetKey(e)
        \/ SpecialKey(e)

Next == Draw \/ PollTimeout \/ NavKey

Spec == Init /\ [][Next]_vars

-----------------------------------------------------------------------------
(* Properties of the navigation machine *)

\* a key event has just been handled: the loop left "poll" with a new history
Handled(e) == pc = "poll" /\ pc' # "poll" /\ trace'.key = e

\* rows of the selected sheet
Rows == Len(Selected(view, model).transactions)

RECURSIVE Pow10(_)
Pow10(n) == IF n = 0 THEN 1 ELSE 10 * Pow10(n - 1)

\* the base-10 number the digits spell, most significant first
DecimalValue(ds) ==
    LET Sum[i \in 0..Len(ds)] ==
            IF i = 0 THEN 0 ELSE Sum[i - 1] + ds[i] * Pow10(Len(ds) - i)
    IN Sum[Len(ds)]

\* the last key event ran cmd with a count typed before it
CountMoved(cmd) == trace.ran = cmd /\ trace.before.last_nums # <<>>

\* C3: from an empty accumulator the first "g" runs nothing and only becomes
\* pending; the "g" pressed while "g" is pending runs the jump to the first row
\* (once: one action per key event) and empties the accumulator
C3_TwoKeySequence ==
    [][(Handled(Plain("g")) /\ ~popup.some) =>
         /\ last_chars = <<>> =>
              /\ trace'.ran = <<>>
              /\ last_chars' = <<"g">>
              /\ view' = view
         /\ last_chars = <<"g">> =>
              /\ trace'.ran = <<"g", "g">>
              /\ CurrentRow(view', model') = Some(0)
              /\ last_chars' = <<>>]_vars

C3_Witness ==
    /\ trace.key = Plain("g")
    /\ trace.ran = <<"g", "g">>
    /\ trace.before.last_chars = <<"g">>
    /\ trace.before.row = Some(2)
    /\ CurrentRow(view, model) = Some(0)

\* C4: with "g" pending, a key for another character c (not "g", no digit)
\* does not run the jump to the first row and leaves exactly c pending
C4_OtherCharAfterG ==
    [][\A c \in CharCodes \ (Digits \cup {"g"}) :
         (Handled(Plain(c)) /\ ~popup.some /\ last_chars = <<"g">>) =>
             /\ trace'.ran # <<"g", "g">>
             /\ last_chars' = <<c>>]_vars

C4_Witness ==
    /\ trace.key = Plain("x")
    /\ trace.before.last_chars = <<"g">>
    /\ last_chars = <<"g", "x">>

\* the last key event was a press of the character c, outside a popup, with no
\* character pending
Keyed(c) ==
    /\ trace.key = Plain(c)
    /\ ~trace.before.popup
    /\ trace.before.last_chars = <<>>

\* C5: a count N typed before "j" (no character pending) runs "j" and moves the
\* selection down by N rows, to the last row at most, once the frame is drawn;
\* before "k" it moves up by N rows, to row 0 at least
C5_CountMove ==
    (/\ pc = "poll"
     /\ SheetValid(view, model)
     /\ trace.before.row.some
     /\ trace.before.last_nums # <<>>
     /\ Rows > 0) =>
        LET n == DecimalValue(trace.before.last_nums)
            from == trace.before.row.v
        IN /\ Keyed("j") =>
                 /\ trace.ran = <<"j">>
                 /\ CurrentRow(view, model) = Some(Min(from + n, Rows - 1))
           /\ Keyed("k") =>
                 /\ trace.ran = <<"k">>
                 /\ CurrentRow(view, model) = Some(Max(from - n, 0))

C5_Witness ==
    /\ pc = "poll"
    /\ CountMoved(<<"j">>)
    /\ trace.before.last_nums = <<1, 0>>
    /\ trace.before.row = Some(0)
    /\ Rows = 3
    /\ CurrentRow(view, model) = Some(2)

\* C6: a dispatched count move leaves no count pending, and the bare "j" that
\* follows it at once moves down by one row
C6_CountCleared ==
    /\ (CountMoved(<<"j">>) \/ CountMoved(<<"k">>)) => last_nums = <<>>
    /\ (trace.before.counted /\ trace.key = Plain("j") /\ SheetValid(view, model)
          /\ trace.before.row.some /\ Rows > 0) =>
           /\ trace.before.last_nums = <<>>
           /\ trace.ran = <<"j">>
           /\ CurrentRow(view, model) = Some(Min(trace.before.row.v + 1, Rows - 1))

C6_Witness ==
    /\ trace.before.counted
    /\ trace.key = Plain("j")
    /\ trace.ran = <<"j">>
    /\ trace.before.row = Some(0)
    /\ Rows = 3
    /\ CurrentRow(view, model) = Some(1)

\* C8: "j" and "k" with no digit pending move by one row; with a typed count of
\* zero they are count moves of no row, and the selection stays
C8_ZeroIsACount ==
    (/\ SheetValid(view, model)
     /\ trace.before.row.some
     /\ (Keyed("j") \/ Keyed("k"))
     /\ pc = "draw"
     /\ Rows > 0) =>
        LET from == trace.before.row.v
            nums == trace.before.last_nums
        IN /\ trace.ran = <<trace.key.code>>
           /\ (nums = <<>> /\ Keyed("j")) =>
                 CurrentRow(view, model) = Some(Min(from + 1, Rows - 1))
           /\ (nums = <<>> /\ Keyed("k")) =>
                 CurrentRow(view, model) = Some(Max(from - 1, 0))
           /\ (nums # <<>> /\ \A i \in 1..Len(nums) : nums[i] = 0) =>
                 CurrentRow(view, model) = Some(from)

C8_Witness ==
    /\ trace.ran = <<"j">>
    /\ trace.before.last_nums = <<0>>
    /\ trace.before.row = Some(0)
    /\ Rows = 3
    /\ CurrentRow(view, model) = Some(0)

\* C9: a digit key empties the pending characters, so that the two accumulators
\* are never both non-empty
C9_Exclusive ==
    /\ ~(last_nums # <<>> /\ last_chars # <<>>)
    /\ (to_digit(trace.key.code).some /\ trace.key = Plain(trace.key.code)
          /\ ~trace.before.popup) => last_chars = <<>>

C9_Witness ==
    /\ trace.key = Plain("2")
    /\ trace.before.last_chars = <<"g">>
    /\ last_chars = <<"g">>
    /\ last_nums = <<2>>

\* C10: once a character key that is no digit has been handled outside a popup,
\* whether it completed a command or not, no digit is pending
C10_NonDigitClears ==
    (/\ pc # "aborted"
     /\ IsPress(trace.key)
     /\ trace.key.code \in CharCodes
     /\ ~(to_digit(trace.key.code).some /\ "CONTROL" \notin trace.key.mods)
     /\ ~trace.before.popup) =>
        last_nums = <<>>

C10_Witness ==
    /\ trace.key = Plain("x")
    /\ trace.ran = <<>>
    /\ trace.before.last_nums = <<1, 2>>
    /\ last_nums = <<>>

\* C11: once a key event has run a command, and once Esc or Backspace has been
\* handled outside a popup, no digit and no character is pending
C11_ResetPolicy ==
    (/\ pc # "aborted"
     /\ IsPress(trace.key)
     /\ ~trace.before.popup
     /\ (trace.ran # <<>> \/ trace.key.code \in {"Esc", "Backspace"})) =>
        /\ last_nums = <<>>
        /\ last_chars = <<>>

C11_Witness ==
    /\ trace.key = Plain("Esc")
    /\ trace.before.last_chars = <<"g">>
    /\ trace.before.last_nums = <<2>>
    /\ last_nums = <<>>
    /\ last_chars = <<>>

\* C12: a key that is no character key, not Esc or Backspace and has no special
\* mapping (Tab) changes nothing outside a popup: the pending digits and
\* characters, the exit flag, the popup, the register, the View and the Model
\* stay, so that a count typed before it is still there for the next move key
C12_UnmappedKeyDropped ==
    [][(Handled(Plain("Tab")) /\ ~popup.some) =>
          UNCHANGED <<last_nums, last_chars, exit, popup, register, view, model>>]_vars

C12_Witness ==
    /\ trace.key = Plain("Tab")
    /\ ~trace.before.popup
    /\ trace.before.last_nums = <<2>>
    /\ trace.before.last_chars = <<>>
    /\ last_nums = <<>>

-----------------------------------------------------------------------------
(* The count machine: long digit sequences *)

CountEvents == {Plain(c) : c \in {"0", "4", "j", "Esc"}}

CountKey ==
    \E e \in CountEvents :
        \/ DigitKey(e, MaxCountDigits)
        \/ CharKey(e)
        \/ ResetKey(e)

NextCount == Draw \/ CountKey

SpecCount == Init /\ [][NextCount]_vars

\* the number the digits spell, as limbs: the last five digits and those before
PositionalLimbs(ds) ==
    LET n == Len(ds)
    IN [hi |-> IF n > 5 THEN DecimalValue(SubSeq(ds, 1, n - 5)) ELSE 0,
        lo |-> DecimalValue(SubSeq(ds, Max(1, n - 4), n))]

\* what get_count_amount is to return for the digits
ExpectedCount(ds) ==
    IF LimbLeq(PositionalLimbs(ds), U32Max) THEN PositionalLimbs(ds) ELSE U32Max

\* C7: get_count_amount is the base-10 number the pending digits spell in typed
\* order, 0 for none, and u32::MAX when that number is larger; "j" moves by it
C7_CountValue ==
    /\ get_count_amount(last_nums) = ExpectedCount(last_nums)
    /\ (pc = "draw" /\ CountMoved(<<"j">>) /\ trace.before.row.some) =>
           CurrentRow(view, model) =
               Some(SatAdd(trace.before.row.v,
                           AsUsize(ExpectedCount(trace.before.last_nums))))

C7_Witness ==
    /\ Len(last_nums) = 10
    /\ last_nums[1] = 4
    /\ last_nums[2] = 4
    /\ get_count_amount(last_nums) = U32Max

-----------------------------------------------------------------------------
(* The popup machine: help and rename-sheet *)

PopupEvents ==
    {Plain(c) : c \in {"q", "?", "Enter", "Esc", "Backspace"}}
        \cup {Ctrl("r"), Release("q")}

PopupMachineKey ==
    \E e \in PopupEvents :
        \/ IgnoredEvent(e)
        \/ PopupKey(e)
        \/ CharKey(e)
        \/ ModifiedCharKey(e)
        \/ ResetKey(e)
        \/ SpecialKey(e)

NextPopup == Draw \/ PopupMachineKey

SpecPopup == InitWith(ScratchModel) /\ [][NextPopup]_vars

\* C1: a key press that finds a popup open runs no command, leaves the
\* accumulators, the exit flag, the register and the View as they were, and
\* changes the popup as the popup's own handler says: "q" is appended to the text
\* of an Input popup, and it closes an Info popup, without the exit flag being set
C1_ModalExclusive ==
    [][(pc = "poll" /\ popup.some /\ pc' # "poll" /\ IsPress(trace'.key)) =>
         /\ trace'.ran = <<>>
         /\ UNCHANGED <<last_nums, last_chars, exit, register, view>>
         /\ (trace'.key.code = "q" /\ popup.v.kind = "Input") =>
                /\ popup' = Some([popup.v EXCEPT !.text = Append(@, "q")])
                /\ model' = model
         /\ (trace'.key.code = "q" /\ popup.v.kind = "Info") => popup' = None
         /\ popup'.some => popup'.v.kind = popup.v.kind]_vars

C1_Witness ==
    /\ trace.key = Plain("q")
    /\ trace.before.popup
    /\ popup.some
    /\ popup.v.kind = "Input"
    /\ popup.v.text = <<"S", "q", "q">>
    /\ ~exit
    /\ pc = "draw"

-----------------------------------------------------------------------------
(* The earlier controller: an ordered list of rules, the first match runs *)

\* Pred::evaluate for the one predicate the rules use
evaluate(predicate, e) == predicate = "shift_pressed" /\ "SHIFT" \in e.mods

\* KeyMap::matches
matches(keymap, e) ==
    /\ e.code \in keymap.keys
    /\ (keymap.predicate.some => evaluate(keymap.predicate.v, e))

\* a rule list that tries the unguarded Left and Right rules first
LegacyRulesGuardLast ==
    << [keys |-> {"q"}, predicate |-> None, action |-> "exit"],
       [keys |-> {"h", "Left"}, predicate |-> None, action |-> "previous_column"],
       [keys |-> {"j", "Down"}, predicate |-> None, action |-> "next_row"],
       [keys |-> {"k", "Up"}, predicate |-> None, action |-> "previous_row"],
       [keys |-> {"l", "Right"}, predicate |-> None, action |-> "next_column"],
       [keys |-> {"H", "Left"}, predicate |-> Some("shift_pressed"),
        action |-> "previous_sheet"],
       [keys |-> {"L", "Right"}, predicate |-> Some("shift_pressed"),
        action |-> "next_sheet"] >>

\* the arms of the match in handle_key_event, in their order
LegacyRules ==
    << [keys |-> {"q"}, predicate |-> None, action |-> "exit"],
       [keys |-> {"H", "Left"}, predicate |-> Some("shift_pressed"),
        action |-> "previous_sheet"],
       [keys |-> {"L", "Right"}, predicate |-> Some("shift_pressed"),
        action |-> "next_sheet"],
       [keys |-> {"h", "Left"}, predicate |-> None, action |-> "previous_column"],
       [keys |-> {"j", "Down"}, predicate |-> None, action |-> "next_row"],
       [keys |-> {"k", "Up"}, predicate |-> None, action |-> "previous_row"],
       [keys |-> {"l", "Right"}, predicate |-> None, action |-> "next_column"] >>

\* the rules that match the event, by position
Matching(e) == {i \in DOMAIN LegacyRules : matches(LegacyRules[i], e)}

\* the first rule that matches, or 0 for the arm that does nothing
FirstMatch(e) ==
    IF Matching(e) = {} THEN 0
    ELSE CHOOSE i \in Matching(e) : \A j \in Matching(e) : i <= j

\* what a rule's action does to the View
LegacyAction(action, v, m) ==
    CASE action = "previous_sheet" -> previous_sheet(v, m)
      [] action = "next_sheet" -> next_sheet(v, m)
      [] action = "previous_column" -> previous_column(v, m)
      [] action = "next_row" -> next_row(v, m)
      [] action = "previous_row" -> previous_row(v, m)
      [] action = "next_column" -> next_column(v, m)
      [] OTHER -> v

\* the earlier Controller::handle_key_event
LegacyKey(e) ==
    /\ pc = "poll"
    /\ IsPress(e)
    /\ LET i == FirstMatch(e)
           action == IF i = 0 THEN "none" ELSE LegacyRules[i].action
       IN /\ exit' = (exit \/ action = "exit")
          /\ view' = LegacyAction(action, view, model)
          /\ trace' = [key |-> e,
                       ran |-> IF i = 0 THEN <<>> ELSE <<action>>,
                       before |-> Before, called |-> <<>>]
    /\ pc' = AfterEvent(exit')
    /\ UNCHANGED <<model, last_nums, last_chars, popup, register>>

LegacyEvents ==
    {Plain(c) : c \in {"q", "H", "L", "h", "j", "k", "l", "x",
                        "Left", "Right", "Up", "Down"}}
        \cup {Shift(c) : c \in {"H", "L", "Left", "Right", "Down"}}
        \cup {Release("j")}

LegacyMachineKey ==
    \E e \in LegacyEvents :
        \/ IgnoredEvent(e)
        \/ LegacyKey(e)

NextLegacy == Draw \/ PollTimeout \/ LegacyMachineKey

SpecLegacy == Init /\ [][NextLegacy]_vars

\* the column selected on the sheet shown, None before the first draw
CurrentColumn(v, m) ==
    IF SheetValid(v, m) /\ HasState(v, Selected(v, m))
    THEN get_state_of(v, Selected(v, m)).column
    ELSE None

\* C2: wherever a rule with a condition stands before a rule without one for
\* the same key, the key runs the first rule's action when the condition holds
\* and the second rule's action when it does not; Shift+Left steps to the
\* previous sheet and leaves the column, Left alone moves the column and
\* leaves the sheet
C2_GuardedRuleFirst ==
    [][(pc = "poll" /\ pc' # "poll" /\ IsPress(trace'.key)) =>
         LET e == trace'.key
         IN /\ \A i, j \in DOMAIN LegacyRules :
                  (/\ i < j
                   /\ LegacyRules[i].predicate.some
                   /\ ~LegacyRules[j].predicate.some
                   /\ e.code \in LegacyRules[i].keys \cap LegacyRules[j].keys) =>
                      trace'.ran =
                          IF evaluate(LegacyRules[i].predicate.v, e)
                          THEN <<LegacyRules[i].action>>
                          ELSE <<LegacyRules[j].action>>
            /\ e = Shift("Left") =>
                  /\ trace'.ran = <<"previous_sheet">>
                  /\ view' = previous_sheet(view, model)
                  /\ view'.sheet_states = view.sheet_states
            /\ e = Plain("Left") =>
                  /\ trace'.ran = <<"previous_column">>
                  /\ view' = previous_column(view, model)
                  /\ view'.selected_sheet = view.selected_sheet]_vars

C2_Witness ==
    /\ trace.key = Shift("Left")
    /\ trace.ran = <<"previous_sheet">>
    /\ trace.before.sheet = 1
    /\ view.selected_sheet = 0
    /\ CurrentColumn(view, model) = Some(1)

-----------------------------------------------------------------------------
(* The modifier machine: character keys with Ctrl or Alt held *)

ModEvents ==
    {Plain("j"), Plain("k"), Plain("1"), Plain("Esc"),
     Ctrl("j"), Ctrl("q"), Ctrl("c"), Alt("j"), Alt("q")}

ModKey ==
    \E e \in ModEvents :
        \/ DigitKey(e, MaxNums)
        \/ CharKey(e)
        \/ ModifiedCharKey(e)
        \/ ResetKey(e)

NextMod == Draw \/ ModKey

SpecMod == Init /\ [][NextMod]_vars

\* C13: a character key with Ctrl or Alt held is never taken for the plain
\* character: it does not run the command the plain character would complete
\* and does not append the plain character; with Ctrl it is the token <C-c>
\* that is appended, or completes a command
C13_ModifiedToken ==
    [][\A c \in CharCodes : \A mod \in {"CONTROL", "ALT"} :
          (Handled(Press(c, {mod})) /\ ~popup.some) =>
              /\ trace'.ran # Append(last_chars, c)
              /\ last_chars' # Append(last_chars, c)
              /\ mod = "CONTROL" =>
                    \/ trace'.ran = last_chars \o Token(c) /\ last_chars' = <<>>
                    \/ trace'.ran = <<>> /\ last_chars' = last_chars \o Token(c)]_vars

C13_Witness ==
    /\ trace.key = Alt("q")
    /\ ~trace.before.popup
    /\ trace.before.last_chars = <<>>
    /\ trace.ran = <<"q">>
    /\ exit

-----------------------------------------------------------------------------
(* The controller under a driver that goes on delivering events once the    *)
(* exit flag is set: handle_events is public and does not look at the flag  *)

\* a driver that goes round its loop again although exit is set
LateEvent ==
    /\ pc = "done"
    /\ pc' = "draw"
    /\ UNCHANGED <<model, view, last_nums, last_chars, popup, exit, register, trace>>

DrivenEvents ==
    {Plain("q"), Plain("?"), Plain("j"), Plain("1"), Plain("Esc"), Plain("Enter"),
     Ctrl("c"), Ctrl("r")}

DrivenKey ==
    \E e \in DrivenEvents :
        \/ PopupKey(e)
        \/ DigitKey(e, MaxNums)
        \/ CharKey(e)
        \/ ModifiedCharKey(e)
        \/ ResetKey(e)
        \/ SpecialKey(e)

NextDriven == Draw \/ LateEvent \/ DrivenKey

SpecDriven == Init /\ [][NextDriven]_vars

\* C20: once the exit flag is set, no key event, command or popup callback
\* clears it
C20_ExitMonotonic == [][exit => exit']_vars

C20_Witness ==
    /\ exit
    /\ trace.key = Plain("Enter")
    /\ trace.before.popup
    /\ ~popup.some
    /\ pc = "done"

\* C18: an Info popup is closed by Esc and by "q" only; any other key press
\* leaves the same popup, and no key press it takes changes the Model or calls
\* a callback
C18_InfoDismiss ==
    [][(/\ pc = "poll"
        /\ popup.some
        /\ popup.v.kind = "Info"
        /\ pc' # "poll"
        /\ IsPress(trace'.key)) =>
          /\ model' = model
          /\ trace'.called = <<>>
          /\ popup' = IF trace'.key.code \in {"Esc", "q"} THEN None ELSE popup]_vars

C18_Witness ==
    /\ trace.key = Plain("Enter")
    /\ trace.before.popup
    /\ popup = Some(HelpPopup)
    /\ trace.called = <<>>

-----------------------------------------------------------------------------
(* The confirm machine: the delete-sheet question *)

ConfirmEvents ==
    {Plain(c) : c \in {"y", "n", "q", "x", "L", "H", "Enter", "Esc"}}
        \cup {Press("Delete", {"CONTROL"}), Ctrl("t"), Release("y"), Repeat("y"), Resize}

ConfirmKey ==
    \E e \in ConfirmEvents :
        \/ IgnoredEvent(e)
        \/ PopupKey(e)
        \/ CharKey(e)
        \/ ModifiedCharKey(e) /\ sheet_count(model) < MaxSheets
        \/ ResetKey(e)
        \/ SpecialKey(e)

NextConfirm == Draw \/ ConfirmKey

SpecConfirm == InitWith(ScratchModel) /\ [][NextConfirm]_vars

\* C19: a Confirm popup calls its callback once with TRUE on Enter and "y",
\* once with FALSE on "n", and not at all on Esc and "q"; each of these closes
\* it; any other key leaves the same popup, no callback called
C19_ConfirmKeys ==
    [][(/\ pc = "poll"
        /\ popup.some
        /\ popup.v.kind = "Confirm"
        /\ pc' # "poll"
        /\ IsPress(trace'.key)) =>
          LET k == trace'.key.code
              call(choice) == <<[f |-> popup.v.on_submit, arg |-> choice]>>
          IN /\ k \in {"Enter", "y"} => trace'.called = call(TRUE) /\ popup' = None
             /\ k = "n" => trace'.called = call(FALSE) /\ popup' = None
             /\ k \in {"Esc", "q"} =>
                    trace'.called = <<>> /\ popup' = None /\ model' = model
             /\ k \notin {"Enter", "y", "n", "Esc", "q"} =>
                    trace'.called = <<>> /\ popup' = popup /\ model' = model]_vars

C19_Witness ==
    /\ trace.key = Plain("y")
    /\ trace.before.popup
    /\ trace.called = <<[f |-> [f |-> "delete_sheet", sheet_index |-> 1], arg |-> TRUE]>>
    /\ ~popup.some
    /\ sheet_count(model) = 1

-----------------------------------------------------------------------------
(* The rename machine: sheet names of several lines, on the loaded document *)

RenameEvents ==
    {Plain("q"), Plain("Enter"), Plain("Esc"), Plain("Backspace"), Ctrl("r"), Ctrl("m")}

RenameKey ==
    \E e \in RenameEvents :
        \/ PopupKey(e)
        \/ CharKey(e)
        \/ ModifiedCharKey(e)
        \/ ResetKey(e)
        \/ SpecialKey(e)

NextRename == Draw \/ RenameKey

SpecRename == InitWith(LoadedModel(MaxRows)) /\ [][NextRename]_vars

\* the lines of an Input popup's buffer
RECURSIVE BufferLines(_)
BufferLines(text) ==
    IF \E i \in 1..Len(text) : text[i] = "\n"
    THEN LET i == CHOOSE j \in 1..Len(text) :
                      text[j] = "\n" /\ \A k \in 1..(j - 1) : text[k] # "\n"
         IN <<SubSeq(text, 1, i - 1)>> \o BufferLines(SubSeq(text, i + 1, Len(text)))
    ELSE <<text>>

\* the lines joined by one space each
RECURSIVE JoinedBySpace(_)
JoinedBySpace(lines) ==
    IF Len(lines) = 1 THEN lines[1]
    ELSE lines[1] \o <<" ">> \o JoinedBySpace(Tail(lines))

\* C15: Enter in the rename popup closes it and gives the sheet that was
\* selected when the popup was opened the buffer's lines joined by single
\* spaces as its name; its transactions, every other sheet and the number of
\* sheets stay as they were
C15_RenameRoundTrip ==
    [][(/\ pc = "poll"
        /\ popup.some
        /\ popup.v.kind = "Input"
        /\ popup.v.on_submit.f = "rename_sheet"
        /\ pc' # "poll"
        /\ IsPress(trace'.key)
        /\ trace'.key.code = "Enter") =>
          LET text == JoinedBySpace(BufferLines(popup.v.text))
              index == trace'.before.opened.sheet
          IN /\ popup' = None
             /\ \A c \in 1..Len(text) : text[c] \notin {"\n", "\r"}
             /\ sheet_count(model') = sheet_count(model)
             /\ \A s \in 0..(sheet_count(model) - 1) :
                    /\ get_sheet(model', s).v.transactions
                           = get_sheet(model, s).v.transactions
                    /\ get_sheet(model', s).v.name
                           = IF s = index THEN text ELSE get_sheet(model, s).v.name]_vars

C15_Witness ==
    /\ trace.key = Plain("Enter")
    /\ trace.before.popup
    /\ ~popup.some
    /\ get_sheet(model, 0).v.name = <<"q", " ", "q">>
    /\ get_sheet(model, 1).some
    /\ get_sheet(model, 1).v.name = SheetName(1)

-----------------------------------------------------------------------------
(* The wizard machine: one new row for a sheet with room for one more, or   *)
(* for a sheet that was emptied                                             *)

WizardEvents ==
    {Plain(c) : c \in {"1", "-", "o", "O", "?", "q", "Enter", "Esc", "Backspace"}}
        \cup {Press("Delete", {"CONTROL"})}

WizardKey ==
    \E e \in WizardEvents :
        \/ PopupKey(e)
        \/ DigitKey(e, MaxNums)
        \/ CharKey(e) /\ Len(Selected(view, model).transactions) \in {0, MaxRows - 1}
        \/ ResetKey(e)
        \/ SpecialKey(e)

NextWizard == Draw \/ WizardKey

\* the loaded document, cut to one row, once the first frame was drawn and "d"
\* has deleted the row of the sheet shown: the sheet is empty, the register
\* holds the row
InitEmptied ==
    /\ model = [LoadedModel(1) EXCEPT !.main_sheet.transactions = <<>>]
    /\ view = render(ViewNew, LoadedModel(1))
    /\ last_nums = <<>>
    /\ last_chars = <<>>
    /\ popup = None
    /\ exit = FALSE
    /\ register = Some(DefaultTransaction)
    /\ pc = "draw"
    /\ trace = [key |-> Plain("d"), ran |-> <<"d">>,
                before |-> [last_nums |-> <<>>, last_chars |-> <<>>, row |-> Some(0),
                            sheet |-> 0, popup |-> FALSE, modal |-> None,
                            counted |-> FALSE,
                            opened |-> [model |-> LoadedModel(1), sheet |-> 0]],
                called |-> <<>>]

SpecWizard ==
    (InitWith(LoadedModel(MaxRows - 1)) \/ InitEmptied) /\ [][NextWizard]_vars

\* a key press is taken by the Input popup whose callback is f
InputKey(f) ==
    /\ pc = "poll"
    /\ popup.some
    /\ popup.v.kind = "Input"
    /\ popup.v.on_submit.f \in f
    /\ pc' # "poll"
    /\ IsPress(trace'.key)

WizardSteps == {"new_row_date", "new_row_label", "new_row_amount"}

\* C14: Esc in an Input popup closes it without a call of its callback, and
\* leaves the Model as it was when the popup was opened; so at the date, the
\* label and the amount step of the new-row wizard
C14_EscCancels ==
    [][(InputKey(WizardSteps \cup {"rename_sheet", "insert_action"})
            /\ trace'.key.code = "Esc") =>
          /\ popup' = None
          /\ trace'.called = <<>>
          /\ model' = model
          /\ model' = trace'.before.opened.model]_vars

C14_Witness ==
    /\ trace.key = Plain("Esc")
    /\ trace.before.modal.some
    /\ trace.before.modal.v.on_submit.f = "new_row_amount"
    /\ trace.before.modal.v.on_submit.label = <<"1", "1">>
    /\ trace.before.modal.v.text = <<"-", "1">>
    /\ ~popup.some
    /\ model = LoadedModel(MaxRows - 1)

-----------------------------------------------------------------------------
(* The edit machine: insert_action on the cells of the scratch sheet's row *)

EditEvents == {Plain(c) : c \in {"1", "-", "l", "i", "Enter", "Esc", "Backspace"}}

EditKey ==
    \E e \in EditEvents :
        \/ PopupKey(e)
        \/ DigitKey(e, MaxPending)
        \/ CharKey(e)
        \/ ResetKey(e)
        \/ SpecialKey(e)

NextEdit == Draw \/ EditKey

SpecEdit == InitWith(ScratchModel) /\ [][NextEdit]_vars

-----------------------------------------------------------------------------
(* Events that are no key press *)

\* C21: an event that is no key press (a key release, a key repeat, a resize)
\* leaves the accumulators, the popup, the exit flag, the register, the View and
\* the Model as they were, with no popup open and with one open
C21_OnlyPressActs ==
    [][(pc = "poll" /\ pc' # "poll"
          /\ trace'.key.kind \in {"Release", "Repeat", "Resize"}) =>
          /\ trace'.ran = <<>>
          /\ trace'.called = <<>>
          /\ UNCHANGED <<last_nums, last_chars, popup, exit, register, view, model>>]_vars

C21_Witness ==
    /\ trace.key = Repeat("y")
    /\ trace.before.modal.some
    /\ trace.before.modal.v.kind = "Confirm"
    /\ popup = trace.before.modal
    /\ sheet_count(model) = 2
    /\ view.selected_sheet = 1

-----------------------------------------------------------------------------
(* The row machine: yank, delete, paste and move on the second sheet of the *)
(* loaded document, whose rows differ                                       *)

RowEvents ==
    {Plain(c) : c \in {"y", "d", "p", "P", "J", "K", "j", "k", "l", "i", "L", "Esc"}}

\* the user steps to the second sheet first and stays there; a paste is typed
\* while the sheet has room for a row
RowKey ==
    \E e \in RowEvents :
        \/ PopupKey(e)
        \/ /\ CharKey(e)
           /\ (e.code = "L") = (view.selected_sheet = 0)
           /\ e.code \in {"p", "P"} => Len(Selected(view, model).transactions) < MaxRows
        \/ ResetKey(e)

NextRows == Draw \/ RowKey

SpecRows == InitWith(LoadedModel(MaxRows - 1)) /\ [][NextRows]_vars

\* the selected sheet has a selected row that is one of its rows
ValidRow ==
    /\ CurrentRow(view, model).some
    /\ CurrentRow(view, model).v < Rows

\* a key press has run the command cmd with no popup open
Ran(cmd) == pc = "poll" /\ ~popup.some /\ pc' # "poll" /\ trace'.ran = cmd

\* C22: with no valid row selected on the sheet shown, each of J, K, y, d, p, P
\* and i does nothing: the Model, the register, the popup and the View stay as
\* they were and the program does not abort
C22_SelectionAbsent ==
    [][\A c \in {"J", "K", "y", "d", "p", "P", "i"} :
          (Ran(<<c>>) /\ ~ValidRow) =>
              /\ UNCHANGED <<model, register, popup, view>>
              /\ pc' # "aborted"]_vars

C22_Witness ==
    /\ trace.key = Plain("p")
    /\ trace.ran = <<"p">>
    /\ trace.before.row = None
    /\ register.some
    /\ view.selected_sheet = 1
    /\ Rows = 0
    /\ CurrentColumn(view, model).some
    /\ pc = "draw"

-----------------------------------------------------------------------------
(* Sheets: cycling, creating, deleting *)

\* next_sheet applied n times
RECURSIVE NextSheetTimes(_, _, _)
NextSheetTimes(n, v, m) ==
    IF n = 0 THEN v ELSE NextSheetTimes(n - 1, next_sheet(v, m), m)

\* C23: "L" on the last sheet selects sheet 0 and on any other the sheet after;
\* "H" on sheet 0 selects the last sheet and on any other the sheet before;
\* from any valid index, as many next_sheet steps as there are sheets lead back
\* to that index
C23_SheetCycle ==
    [][/\ (Ran(<<"L">>) /\ SheetValid(view, model)) =>
              view'.selected_sheet =
                  IF view.selected_sheet = sheet_count(model) - 1 THEN 0
                  ELSE view.selected_sheet + 1
       /\ (Ran(<<"H">>) /\ SheetValid(view, model)) =>
              view'.selected_sheet =
                  IF view.selected_sheet = 0 THEN sheet_count(model) - 1
                  ELSE view.selected_sheet - 1
       /\ SheetValid(view, model) =>
              NextSheetTimes(sheet_count(model), view, model).selected_sheet
                  = view.selected_sheet]_vars

C23_Witness ==
    /\ trace.ran = <<"L">>
    /\ trace.before.sheet = MaxSheets - 1
    /\ sheet_count(model) = MaxSheets
    /\ view.selected_sheet = 0
    /\ trace.before.opened.model = model

\* C24: the selected-sheet index names a sheet of the Model in every state, so
\* also once sheets were created and once the sheet shown, the last one, was
\* deleted through the delete-sheet question
C24_SelectedSheetValid == view.selected_sheet < sheet_count(model)

C24_Witness ==
    /\ trace.key = Plain("y")
    /\ trace.before.modal.some
    /\ trace.before.modal.v.kind = "Confirm"
    /\ trace.before.modal.v.on_submit.sheet_index = trace.before.sheet
    /\ trace.before.sheet = 2
    /\ view.selected_sheet = 2
    /\ sheet_count(model) = 2
    /\ pc = "aborted"

-----------------------------------------------------------------------------
(* The register *)

\* the rows of the sheet shown, before and after a step
RowsOf(m) == Selected(view, m).transactions

\* rows with the record put in at the 0-based index
WithRowAt(rows, index, record) ==
    SubSeq(rows, 1, index) \o <<record>> \o SubSeq(rows, index + 1, Len(rows))

\* rows without the row at the 0-based index
WithoutRowAt(rows, index) ==
    SubSeq(rows, 1, index) \o SubSeq(rows, index + 2, Len(rows))

\* C25: "p" puts a copy of the register's record in below the selected row and
\* selects it, "P" puts it in at the selected row's index; the other rows keep
\* their order, the other sheet and the register stay as they were, so that a
\* second paste puts in the same record; with nothing in the register both
\* change nothing
C25_PasteReadOnly ==
    [][\A c \in {"p", "P"} :
          (Ran(<<c>>) /\ ValidRow) =>
              LET row == CurrentRow(view, model).v
              IN /\ register' = register
                 /\ popup' = popup
                 /\ model'.main_sheet = model.main_sheet
                 /\ ~register.some => model' = model /\ view' = view
                 /\ (register.some /\ c = "p") =>
                        /\ RowsOf(model') = WithRowAt(RowsOf(model), row + 1, register.v)
                        /\ CurrentRow(view', model') = Some(row + 1)
                 /\ (register.some /\ c = "P") =>
                        /\ RowsOf(model') = WithRowAt(RowsOf(model), row, register.v)
                        /\ CurrentRow(view', model') = Some(row)]_vars

C25_Witness ==
    /\ trace.ran = <<"p">>
    /\ trace.before.row = Some(1)
    /\ CurrentRow(view, model) = Some(2)
    /\ register = Some(LoadedRow(0))
    /\ RowsOf(model) = <<LoadedRow(0), LoadedRow(0), LoadedRow(0)>>

\* C26: "y" puts a copy of the selected row in the register and leaves the
\* sheets as they were; "d" takes exactly the selected row out of its sheet, the
\* other rows keeping their order, and puts it in the register; whatever the
\* register held is replaced, and no other command changes the register
C26_YankDelete ==
    [][/\ (Ran(<<"y">>) /\ ValidRow) =>
              /\ register' = Some(At(RowsOf(model), CurrentRow(view, model).v))
              /\ model' = model
              /\ view' = view
       /\ (Ran(<<"d">>) /\ ValidRow) =>
              /\ register' = Some(At(RowsOf(model), CurrentRow(view, model).v))
              /\ RowsOf(model') = WithoutRowAt(RowsOf(model), CurrentRow(view, model).v)
              /\ Len(RowsOf(model')) = Len(RowsOf(model)) - 1
              /\ model'.main_sheet = model.main_sheet
              /\ Len(model'.sheets) = Len(model.sheets)
       /\ register' # register => (Ran(<<"y">>) \/ Ran(<<"d">>))]_vars

C26_Witness ==
    /\ trace.ran = <<"d">>
    /\ trace.before.row = Some(0)
    /\ register = Some(LoadedRow(0))
    /\ RowsOf(model) = <<>>
    /\ CurrentRow(view, model) = None
    /\ pc = "poll"

-----------------------------------------------------------------------------
(* The loop of run_program *)

\* C27: an event is read only in the state a draw has left, and the step that
\* handles it leads to the next draw or, with the exit flag set, to the end of
\* the loop; a draw shows the Model and the controller state the event left and
\* changes none of them; no step is taken once the exit flag is set
C27_LoopOrder ==
    [][/\ ~exit
       /\ trace' # trace => pc = "poll"
       /\ pc = "poll" =>
              pc' \in (IF exit' THEN {"done"} ELSE {"draw", "aborted"})
       /\ pc' = "poll" =>
              /\ pc = "draw"
              /\ view' = render(view, model)
              /\ UNCHANGED <<model, last_nums, last_chars, popup, exit, register, trace>>
       /\ pc = "draw" => pc' \in {"poll", "aborted"}]_vars

C27_Witness ==
    /\ pc = "done"
    /\ exit
    /\ trace.ran = <<"q">>
    /\ trace.before.row = Some(1)
    /\ CurrentRow(view, model) = Some(1)
    /\ Rows = MaxRows

-----------------------------------------------------------------------------
(* Special keys and the characters they stand for *)

\* the mapped special keys, each with the key presses of its character form
SpecialForms ==
    {[key |-> Plain("Up"), typed |-> <<Plain("k")>>],
     [key |-> Plain("Down"), typed |-> <<Plain("j")>>],
     [key |-> Plain("Left"), typed |-> <<Plain("h")>>],
     [key |-> Plain("Right"), typed |-> <<Plain("l")>>],
     [key |-> Shift("Up"), typed |-> <<Plain("K")>>],
     [key |-> Shift("Down"), typed |-> <<Plain("J")>>],
     [key |-> Shift("Left"), typed |-> <<Plain("H")>>],
     [key |-> Shift("Right"), typed |-> <<Plain("L")>>],
     [key |-> Plain("End"), typed |-> <<Plain("G")>>],
     [key |-> Plain("PageUp"), typed |-> <<Ctrl("u")>>],
     [key |-> Plain("PageDown"), typed |-> <<Ctrl("d")>>],
     [key |-> Plain("Home"), typed |-> <<Plain("g"), Plain("g")>>]}

\* the state a press of a character key (no digit) leaves, from the state s
TypedKey(e, s) ==
    Tried(IF "CONTROL" \in e.mods THEN handle_modified_char(s.last_chars, e.code)
          ELSE Append(s.last_chars, e.code),
          s.view, s.model, s)

\* the state at the next poll: the frame is drawn after the event
Drawn(s) == [s EXCEPT !.view = render(s.view, s.model)]

\* the state the key presses leave, typed one at a time from the state s
RECURSIVE TypedKeys(_, _)
TypedKeys(keys, s) ==
    IF Len(keys) = 1 THEN TypedKey(keys[1], s)
    ELSE TypedKeys(Tail(keys), Drawn(TypedKey(keys[1], s)))

\* the state a press of a special key leaves, from the current state
SpecialPressed(e) ==
    Tried(handle_special_key(last_chars, e), view, model, ControllerState)

\* the current state, as the state a key press starts from
Current ==
    [view |-> view, model |-> model, popup |-> popup, exit |-> exit,
     register |-> register, last_chars |-> last_chars, last_nums |-> last_nums,
     ran |-> <<>>, panic |-> FALSE]

\* C28: with no popup open, a press of a mapped special key leaves the state
\* that typing its character form one key at a time leaves: the same View,
\* Model, accumulators, popup, exit flag and register, the same command run
C28_SpecialKeyAsTyped ==
    (pc = "poll" /\ ~popup.some) =>
        \A f \in SpecialForms : SpecialPressed(f.key) = TypedKeys(f.typed, Current)

\* the same for the special keys that stand for one key press
SingleKeyFormsAgree ==
    (pc = "poll" /\ ~popup.some) =>
        \A f \in SpecialForms :
            Len(f.typed) = 1 => SpecialPressed(f.key) = TypedKeys(f.typed, Current)

C28_Witness ==
    /\ trace.key = Plain("Home")
    /\ trace.before.last_chars = <<"g">>
    /\ trace.before.row = Some(2)
    /\ trace.ran = <<>>
    /\ last_chars = <<"g", "g", "g">>
    /\ CurrentRow(view, model) = Some(2)
    /\ pc = "poll"

-----------------------------------------------------------------------------
(* Where the new-row wizard puts its row *)

\* C29: "o" opens the wizard for the index below the selected row, the sheet's
\* length at most (index 0 with no row selected on an empty sheet), "O" for the
\* index of the selected row; the wizard keeps that index and its sheet through
\* its steps, and the Enter that completes it puts the new row in at that
\* index: the sheet is one row longer and the rows it had keep their order
C29_WizardRow ==
    [][/\ \A c \in {"o", "O"} :
              Ran(<<c>>) =>
                  LET row == IF CurrentRow(view, model).some
                             THEN CurrentRow(view, model).v ELSE 0
                  IN /\ popup'.some
                     /\ popup'.v.on_submit.sheet_index = view.selected_sheet
                     /\ popup'.v.on_submit.row =
                            IF c = "O" THEN row
                            ELSE IF row + 1 <= Rows THEN row + 1 ELSE Rows
       /\ (InputKey(WizardSteps) /\ popup'.some) =>
              /\ popup'.v.on_submit.row = popup.v.on_submit.row
              /\ popup'.v.on_submit.sheet_index = popup.v.on_submit.sheet_index
       /\ (InputKey(WizardSteps) /\ ~popup'.some /\ trace'.key.code = "Enter") =>
              LET row == popup.v.on_submit.row
              IN /\ popup.v.on_submit.f = "new_row_amount"
                 /\ Len(RowsOf(model')) = Len(RowsOf(model)) + 1
                 /\ RowsOf(model') = WithRowAt(RowsOf(model), row, At(RowsOf(model'), row))
                 /\ model'.sheets = model.sheets]_vars

C29_Witness ==
    /\ trace.key = Plain("Enter")
    /\ trace.before.modal.some
    /\ trace.before.modal.v.on_submit.f = "new_row_amount"
    /\ trace.before.modal.v.on_submit.row = 1
    /\ ~popup.some
    /\ Len(model.main_sheet.transactions) = MaxRows
    /\ model.main_sheet.transactions[1] = DefaultTransaction
    /\ model.main_sheet.transactions[2].date = <<1, 1, 1>>
    /\ model.main_sheet.transactions[3] = DefaultTransaction

-----------------------------------------------------------------------------
(* Creating a sheet *)

\* C30: Ctrl+t puts exactly one new sheet after the sheets there are, named
\* "Sheet" and its index and holding no transaction; the sheets there were, the
\* selected sheet and the table states of the View stay as they were
C30_CreateSheet ==
    [][Ran(Token("t")) =>
          /\ sheet_count(model') = sheet_count(model) + 1
          /\ model'.main_sheet = model.main_sheet
          /\ SubSeq(model'.sheets, 1, Len(model.sheets)) = model.sheets
          /\ model'.sheets[Len(model'.sheets)].name = SheetName(Len(model.sheets) + 1)
          /\ model'.sheets[Len(model'.sheets)].transactions = <<>>
          /\ view' = view
          /\ UNCHANGED <<popup, exit, register>>]_vars

C30_Witness ==
    /\ trace.key = Ctrl("t")
    /\ trace.ran = Token("t")
    /\ trace.before.opened.model = ScratchModel
    /\ model.main_sheet = ScratchModel.main_sheet
    /\ model.sheets = <<NewSheet(SheetName(1), <<DefaultTransaction>>)>>
    /\ view.selected_sheet = 0

-----------------------------------------------------------------------------
(* What the accumulator may hold *)

\* chars is the start of a registered command and shorter than it
ProperPrefix(chars) == \E c \in Commands : IsPrefix(chars, c) /\ Len(c) > Len(chars)

\* C31: with no popup open, last_chars is always a proper prefix (the empty one
\* included) of a registered command: a character that cannot go on to a command
\* is not kept, so that "q" or "j" pressed after it still runs its command
C31_PendingIsPrefix ==
    /\ [](~popup.some => ProperPrefix(last_chars))
    /\ [][\A c \in {"q", "j"} :
            (Handled(Plain(c)) /\ ~popup.some
                 /\ ~(\E d \in Commands : IsPrefix(last_chars, d) /\ last_chars # <<>>))
                => trace'.ran = <<c>>]_vars

C31_Witness ==
    /\ trace.key = Plain("q")
    /\ trace.before.last_chars = <<"x">>
    /\ ~trace.before.popup
    /\ trace.ran = <<>>
    /\ last_chars = <<"x", "q">>
    /\ ~exit
    /\ pc = "draw"

-----------------------------------------------------------------------------
(* Quitting from anywhere *)

\* Controller::handle_key_event for a press of Esc, Backspace or a character
\* key that is no digit, from the state s: an open popup takes the key
Pressed(e, s) ==
    LET Taken(r) ==
            [s EXCEPT !.popup = r.popup, !.model = r.model, !.panic = r.panic,
                      !.ran = <<>>]
    IN IF s.popup.some THEN Taken(PopupHandleKey(s.popup.v, e, s.model))
       ELSE IF e.code \in {"Backspace", "Esc"}
       THEN [s EXCEPT !.last_chars = reset_chars(@),
                      !.last_nums = clear_nums(reset_nums(@)), !.ran = <<>>]
       ELSE TypedKey(e, s)

\* run_program from the poll of the state s: each key press is handled, the
\* loop ends once exit is set, and the next frame is drawn before the next key
RECURSIVE PressedKeys(_, _)
PressedKeys(keys, s) ==
    LET Then(t) ==
            IF t.panic \/ t.exit \/ Len(keys) = 1 THEN t
            ELSE IF ~SheetValid(t.view, t.model) THEN [t EXCEPT !.panic = TRUE]
            ELSE PressedKeys(Tail(keys), Drawn(t))
    IN Then(Pressed(keys[1], s))

QuitKeys == <<Plain("Esc"), Plain("Esc"), Plain("q")>>

\* C32: wherever the loop waits for an event with exit not set (any digits and
\* characters pending, any popup or step of the wizard open), the key presses
\* Esc, Esc, "q" end with exit set and without an abort
C32_CanQuit ==
    (pc = "poll" /\ ~exit) =>
        LET Quit(t) == t.exit /\ ~t.panic
        IN Quit(PressedKeys(QuitKeys, Current))

\* the wizard at its last step, a date typed before: Esc, Esc, "q" quits
C32_Witness ==
    /\ pc = "poll"
    /\ ~exit
    /\ popup.some
    /\ popup.v.on_submit.f = "new_row_amount"
    /\ popup.v.text = <<"1", "1">>
    /\ PressedKeys(QuitKeys, Current).exit
    /\ ~PressedKeys(QuitKeys, Current).popup.some
    /\ PressedKeys(QuitKeys, Current).model = model

-----------------------------------------------------------------------------
(* The token machine: the characters of <C-c> typed one key at a time *)

TokenEvents ==
    {Plain("<"), Shift("C"), Plain("-"), Plain("c"), Plain(">"), Plain("Esc"),
     Ctrl("c"), Ctrl("u"), Plain("PageUp")}

\* the keys of handle_key_event with no popup open; a plain character is typed
\* while last_chars holds at most MaxToken characters
TokenKey ==
    \E e \in TokenEvents :
        \/ /\ pc = "poll"
           /\ IsPress(e)
           /\ ~popup.some
           /\ e.code \in CharCodes
           /\ "CONTROL" \notin e.mods
           /\ ~to_digit(e.code).some
           /\ Len(last_chars) <= MaxToken
           /\ Dispatch(e, Append(last_chars, e.code))
        \/ ModifiedCharKey(e)
        \/ ResetKey(e)
        \/ SpecialKey(e)

NextToken == Draw \/ TokenKey

SpecToken == InitWith(LoadedModel(MaxRows)) /\ [][NextToken]_vars

\* the key presses that stand for the token <C-c>: the character with Ctrl
\* held, and the special key handle_special_key maps to it
TokenPresses(c) ==
    {Ctrl(c)} \cup (IF c = "u" THEN {Plain("PageUp")}
                    ELSE IF c = "d" THEN {Plain("PageDown")}
                    ELSE {})

\* C33: the command bound to a token <C-c> (quit, create sheet, rename, half
\* page down and up) runs only at a press of the character with Ctrl held or of
\* the special key mapped to it, never at a plain character key that completes
\* the token's spelling
C33_TokenNeedsModifier ==
    [][\A c \in {"c", "t", "r", "d", "u"} :
          Ran(Token(c)) => trace'.key \in TokenPresses(c)]_vars

C33_Witness ==
    /\ trace.key = Plain(">")
    /\ trace.before.last_chars = <<"<", "C", "-", "c">>
    /\ ~trace.before.popup
    /\ trace.ran = Token("c")
    /\ exit
    /\ pc = "done"

-----------------------------------------------------------------------------
(* What a key may change while a popup is open *)

\* C34: a key event that finds a popup open leaves last_nums, last_chars, the
\* exit flag, the register and the View (the selected sheet, and the selected
\* row and column of every sheet) as they were; the popup and, through the
\* popup's callback, the Model are all that can change
C34_ModalFrame ==
    [][(pc = "poll" /\ popup.some /\ pc' # "poll") =>
          /\ UNCHANGED <<last_nums, last_chars, exit, register, view>>
          /\ model' # model => /\ trace'.called # <<>>
                               /\ popup' # popup]_vars

\* the Enter that completes the wizard: the callback has put a row into the
\* Model, the register and the View are what they were
C34_Witness ==
    /\ trace.key = Plain("Enter")
    /\ trace.before.popup
    /\ trace.before.modal.v.on_submit.f = "new_row_amount"
    /\ trace.called # <<>>
    /\ ~popup.some
    /\ model # trace.before.opened.model
    /\ Rows = 1
    /\ register = Some(DefaultTransaction)
    /\ CurrentRow(view, model) = trace.before.row
    /\ pc = "draw"

-----------------------------------------------------------------------------
(* The sheet machine: sheets created and deleted, the cursor moved in them *)

SheetEvents ==
    {Plain("l"), Plain("L"), Plain("y"), Ctrl("t"), Press("Delete", {"CONTROL"})}

SheetKey ==
    \E e \in SheetEvents :
        \/ PopupKey(e)
        \/ CharKey(e)
        \/ ModifiedCharKey(e) /\ sheet_count(model) < MaxSheets
        \/ SpecialKey(e)

NextSheets == Draw \/ SheetKey

SpecSheets == InitWith(ScratchModel) /\ [][NextSheets]_vars

\* the selected row and column the View holds (or would create) for the sheet
\* at index i
CursorOf(v, m, i) ==
    [row |-> get_state_of(v, get_sheet(m, i).v).selected,
     column |-> get_state_of(v, get_sheet(m, i).v).column]

\* C35: the cursor of a sheet is its own, whatever sheets were created, renamed
\* or deleted before: a command that moves the selection in the sheet shown
\* leaves the selected row and column of every other sheet as they were, and a
\* switch to another sheet leaves those of every sheet
C35_CursorPerSheet ==
    [][/\ \A c \in {"h", "j", "k", "l"} :
            Ran(<<c>>) =>
                \A i \in 0..(sheet_count(model) - 1) :
                    i # view.selected_sheet =>
                        CursorOf(view', model', i) = CursorOf(view, model, i)
       /\ \A c \in {"H", "L"} :
            Ran(<<c>>) =>
                \A i \in 0..(sheet_count(model) - 1) :
                    CursorOf(view', model', i) = CursorOf(view, model, i)]_vars

\* two sheets named "Sheet2" after a sheet was deleted and one created; "l" on
\* the first has moved the column of both
C35_Witness ==
    /\ trace.key = Plain("l")
    /\ trace.ran = <<"l">>
    /\ sheet_count(model) = 3
    /\ model.sheets[1].name = SheetName(2)
    /\ model.sheets[2].name = SheetName(2)
    /\ view.selected_sheet = 1
    /\ trace.before.row = Some(0)
    /\ CursorOf(view, model, 1).column = Some(0)
    /\ CursorOf(view, model, 2).column = Some(0)
    /\ pc = "draw"

-----------------------------------------------------------------------------
(* The selected row after a key *)

\* the rows of the sheet shown in the View v of the Model m
RowCount(v, m) == Len(Selected(v, m).transactions)

\* C36: after every key event, if the sheet shown has rows, the index of its
\* selected row is the index of one of them, also after "G", half a page
\* down, a move by a count past the end and the deletion of the last row
C36_RowValidAfterKey ==
    [][(/\ pc = "poll"
        /\ pc' # "poll"
        /\ IsPress(trace'.key)
        /\ SheetValid(view', model')
        /\ RowCount(view', model') > 0
        /\ CurrentRow(view', model').some)
           => CurrentRow(view', model').v < RowCount(view', model')]_vars

\* the state "G" leaves: the selection is at usize::MAX until the next draw
C36_Witness ==
    /\ trace.key = Plain("G")
    /\ trace.ran = <<"G">>
    /\ trace.before.row = Some(0)
    /\ Rows = MaxRows
    /\ CurrentRow(view, model) = Some(USIZE_MAX)
    /\ pc = "draw"

-----------------------------------------------------------------------------
(* Moving a row *)

\* how many times the record t stands in rows
Occurrences(rows, t) == Cardinality({i \in 1..Len(rows) : rows[i] = t})

\* rows with the rows at the 0-based indices i and i + 1 exchanged
Exchanged(rows, i) ==
    [k \in 1..Len(rows) |->
        IF k = i + 1 THEN rows[i + 2] ELSE IF k = i + 2 THEN rows[i + 1] ELSE rows[k]]

\* C37: "J" exchanges the selected row with the row below it and "K" with the
\* row above it, and the selection goes with the moved row; "J" on the last row
\* and "K" on the first leave the order as it was; the sheet keeps its length
\* and its records, each as many times as before, and the other sheets, the
\* register and the popup stay as they were
C37_MoveRowPermutes ==
    [][\A c \in {"J", "K"} :
          (Ran(<<c>>) /\ ValidRow) =>
              LET row == CurrentRow(view, model).v
                  rows == RowsOf(model)
                  after == RowsOf(model')
              IN /\ pc' # "aborted"
                 /\ (c = "J" /\ row + 1 < Len(rows)) =>
                        /\ after = Exchanged(rows, row)
                        /\ CurrentRow(view', model') = Some(row + 1)
                 /\ (c = "J" /\ row + 1 = Len(rows)) =>
                        /\ after = rows
                        /\ CurrentRow(view', model') = Some(row)
                 /\ (c = "K" /\ row > 0) =>
                        /\ after = Exchanged(rows, row - 1)
                        /\ CurrentRow(view', model') = Some(row - 1)
                 /\ (c = "K" /\ row = 0) =>
                        /\ after = rows
                        /\ CurrentRow(view', model') = Some(0)
                 /\ Len(after) = Len(rows)
                 /\ \A i \in 1..Len(rows) :
                        Occurrences(after, rows[i]) = Occurrences(rows, rows[i])
                 /\ model'.main_sheet = model.main_sheet
                 /\ Len(model'.sheets) = Len(model.sheets)
                 /\ view'.selected_sheet = view.selected_sheet
                 /\ UNCHANGED <<register, popup, exit>>]_vars

\* "J" on the first of three rows that differ: the row is now the second, and
\* selected
C37_Witness ==
    /\ trace.key = Plain("J")
    /\ trace.ran = <<"J">>
    /\ trace.before.row = Some(0)
    /\ view.selected_sheet = 1
    /\ RowsOf(model) = <<LoadedRow(1), LoadedRow(0), LoadedRow(0)>>
    /\ CurrentRow(view, model) = Some(1)
    /\ pc = "draw"

-----------------------------------------------------------------------------
(* What navigation leaves alone *)

\* the navigation commands of Controller::new
NavCommands ==
    {<<"h">>, <<"j">>, <<"k">>, <<"l">>, <<"g", "g">>, <<"G">>, <<"H">>, <<"L">>,
     Token("u"), Token("d")}

\* the key presses of navigation: the characters, Ctrl+u and Ctrl+d, and the
\* special keys handle_special_key maps to them
NavPresses ==
    {Plain(c) : c \in {"h", "j", "k", "l", "g", "G", "H", "L"}}
        \cup {Ctrl("u"), Ctrl("d")}
        \cup {Plain(k) : k \in {"Up", "Down", "Left", "Right", "PageUp", "PageDown",
                                "Home", "End"}}
        \cup {Shift("Left"), Shift("Right")}

\* the state a press of a navigation key leaves, from the current state
NavPressed(e) ==
    IF e.code \in CharCodes THEN TypedKey(e, Current) ELSE SpecialPressed(e)

\* C38: navigation (h, j, k, l with or without a count, gg, G, H, L, Ctrl+u,
\* Ctrl+d and the special keys that stand for them) never changes the Model,
\* the register, the popup or the exit flag: neither the command when it runs
\* nor, with no popup open, a press of one of its keys
C38_NavFrame ==
    /\ [][\A cmd \in NavCommands :
            Ran(cmd) => UNCHANGED <<model, register, popup, exit>>]_vars
    /\ []((pc = "poll" /\ ~popup.some) =>
            \A e \in NavPresses :
                LET Same(r) ==
                        /\ r.model = model
                        /\ r.register = register
                        /\ r.popup = popup
                        /\ r.exit = exit
                        /\ ~r.panic
                IN Same(NavPressed(e)))

\* "2" then Down: the selection has moved by the count, the Model has not
C38_Witness ==
    /\ trace.key = Plain("Down")
    /\ trace.ran = <<"j">>
    /\ trace.before.last_nums = <<2>>
    /\ trace.before.row = Some(0)
    /\ CurrentRow(view, model) = Some(2)
    /\ model = LoadedModel(MaxRows)
    /\ register = None
    /\ ~popup.some
    /\ ~exit
    /\ pc = "draw"

-----------------------------------------------------------------------------
(* Delete, then paste above *)

\* the last key event was "d", pressed with a row selected and no popup open,
\* and it ran the delete
JustDeleted ==
    /\ trace.key = Plain("d")
    /\ trace.ran = <<"d">>
    /\ ~trace.before.popup
    /\ trace.before.row.some

\* C39: "d" on a selected row followed at once by "P" gives the sheet the
\* transaction list it had before the "d"
C39_DeletePasteAbove ==
    [][(Handled(Plain("P")) /\ JustDeleted) =>
          RowsOf(model') = RowsOf(trace.before.opened.model)]_vars

\* "d" on the last of two rows, then "P": the deleted row has come back above
\* the row that was before it
C39_Witness ==
    /\ trace.key = Plain("P")
    /\ trace.ran = <<"P">>
    /\ view.selected_sheet = 1
    /\ RowsOf(trace.before.opened.model) = <<LoadedRow(0)>>
    /\ register = Some(LoadedRow(1))
    /\ trace.before.row = Some(0)
    /\ RowsOf(model) = <<LoadedRow(1), LoadedRow(0)>>
    /\ pc = "draw"

====
